---- MODULE Spec2Model ----
(***************************************************************************)
(* Word analysis service: the Lambda handler and its NLPProcessor          *)
(* (backend/lambda_function.py) and the Flask variant (backend/app.py).    *)
(*                                                                         *)
(* Python strings are modelled as sequences of one-character strings, so   *)
(* that strip, split, lower, capitalize, startswith, endswith and the      *)
(* regular-expression clean-up are computed character by character.        *)
(***************************************************************************)
EXTENDS Integers, Sequences, FiniteSets, TLC

\* ------------------------------------------------------------------------
\* Python string operations
\* ------------------------------------------------------------------------

Range(s) == {s[i] : i \in DOMAIN s}

Lowercase == <<"a","b","c","d","e","f","g","h","i","j","k","l","m","n","o","p","q","r","s","t","u","v","w","x","y","z">>

Uppercase == <<"A","B","C","D","E","F","G","H","I","J","K","L","M","N","O","P","Q","R","S","T","U","V","W","X","Y","Z">>

Letters == Range(Lowercase) \cup Range(Uppercase)

\* the characters str.strip() and str.split() treat as white space
Whitespace == {" ", "\t"}

IndexIn(c, s) == CHOOSE i \in DOMAIN s : s[i] = c

\* every character of the model, in the order that sorts strings
CharOrder ==
  Lowercase \o Uppercase \o <<"0","1","2","3","4","5","6","7","8","9">> \o <<" ","_","-",".",",",";",":","!","?","'","(",")">> \o <<"\t", "\"">>

LowerOf ==
  [c \in Range(CharOrder) |->
     IF c \in Range(Uppercase) THEN Lowercase[IndexIn(c, Uppercase)] ELSE c]

UpperOf ==
  [c \in Range(CharOrder) |->
     IF c \in Range(Lowercase) THEN Uppercase[IndexIn(c, Lowercase)] ELSE c]

RankOf == [c \in Range(CharOrder) |-> IndexIn(c, CharOrder)]

lower_char(c) == LowerOf[c]

upper_char(c) == UpperOf[c]

\* str.lower()
lower(s) == [i \in 1..Len(s) |-> lower_char(s[i])]

\* str.upper()
upper(s) == [i \in 1..Len(s) |-> upper_char(s[i])]

\* str.capitalize(): first character upper-cased, all the others lower-cased
capitalize(s) == IF Len(s) = 0 THEN s ELSE <<upper_char(s[1])>> \o lower(Tail(s))

\* str.isalpha(): non-empty and letters only
isalpha(s) == Len(s) > 0 /\ \A i \in DOMAIN s : s[i] \in Letters

RECURSIVE lstrip(_)
lstrip(s) == IF Len(s) > 0 /\ s[1] \in Whitespace THEN lstrip(Tail(s)) ELSE s

RECURSIVE rstrip(_)
rstrip(s) == IF Len(s) > 0 /\ s[Len(s)] \in Whitespace THEN rstrip(SubSeq(s, 1, Len(s) - 1)) ELSE s

\* str.strip()
strip(s) == rstrip(lstrip(s))

\* the first white-space-free run of s (s has no leading white space)
RECURSIVE first_token(_)
first_token(s) ==
  IF Len(s) = 0 \/ s[1] \in Whitespace THEN << >> ELSE <<s[1]>> \o first_token(Tail(s))

\* str.split(): the white-space separated tokens, empty tokens dropped
RECURSIVE split(_)
split(s) ==
  LET t == lstrip(s)
  IN  IF Len(t) = 0 THEN << >>
      ELSE LET tok == first_token(t)
           IN  <<tok>> \o split(SubSeq(t, Len(tok) + 1, Len(t)))

\* re.sub(r'[^a-zA-Z]', '', s)
re_sub_non_letters(s) == SelectSeq(s, LAMBDA c : c \in Letters)

\* s.replace(a, b) for single characters a and b
replace_char(s, a, b) == [i \in 1..Len(s) |-> IF s[i] = a THEN b ELSE s[i]]

\* s.replace(a, '') for a single character a
remove_char(s, a) == SelectSeq(s, LAMBDA c : c # a)

startswith(s, p) == Len(s) >= Len(p) /\ SubSeq(s, 1, Len(p)) = p

endswith(s, p) == Len(s) >= Len(p) /\ SubSeq(s, Len(s) - Len(p) + 1, Len(s)) = p

\* list slicing l[:n]
take(l, n) == SubSeq(l, 1, IF Len(l) < n THEN Len(l) ELSE n)

\* list slicing l[a:b] with 0 <= a <= b
slice(l, a, b) == SubSeq(l, a + 1, IF Len(l) < b THEN Len(l) ELSE b)

\* ------------------------------------------------------------------------
\* Static lexical tables
\* ------------------------------------------------------------------------

\* tag code -> label; the same table in both variants
pos_mapping ==
  <<
    <<<<"N","N">>, <<"N","o","u","n">> >>,
    <<<<"N","N","S">>, <<"N","o","u","n"," ","(","p","l","u","r","a","l",")">> >>,
    <<<<"N","N","P">>, <<"P","r","o","p","e","r"," ","N","o","u","n">> >>,
    <<<<"N","N","P","S">>, <<"P","r","o","p","e","r"," ","N","o","u","n"," ","(","p","l","u","r","a","l",")">> >>,
    <<<<"V","B">>, <<"V","e","r","b">> >>,
    <<<<"V","B","D">>, <<"V","e","r","b"," ","(","p","a","s","t"," ","t","e","n","s","e",")">> >>,
    <<<<"V","B","G">>, <<"V","e","r","b"," ","(","g","e","r","u","n","d",")">> >>,
    <<<<"V","B","N">>, <<"V","e","r","b"," ","(","p","a","s","t"," ","p","a","r","t","i","c","i","p","l","e",")">> >>,
    <<<<"V","B","P">>, <<"V","e","r","b"," ","(","p","r","e","s","e","n","t",")">> >>,
    <<<<"V","B","Z">>, <<"V","e","r","b"," ","(","3","r","d"," ","p","e","r","s","o","n"," ","s","i","n","g","u","l","a","r",")">> >>,
    <<<<"J","J">>, <<"A","d","j","e","c","t","i","v","e">> >>,
    <<<<"J","J","R">>, <<"A","d","j","e","c","t","i","v","e"," ","(","c","o","m","p","a","r","a","t","i","v","e",")">> >>,
    <<<<"J","J","S">>, <<"A","d","j","e","c","t","i","v","e"," ","(","s","u","p","e","r","l","a","t","i","v","e",")">> >>,
    <<<<"R","B">>, <<"A","d","v","e","r","b">> >>,
    <<<<"R","B","R">>, <<"A","d","v","e","r","b"," ","(","c","o","m","p","a","r","a","t","i","v","e",")">> >>,
    <<<<"R","B","S">>, <<"A","d","v","e","r","b"," ","(","s","u","p","e","r","l","a","t","i","v","e",")">> >>,
    <<<<"I","N">>, <<"P","r","e","p","o","s","i","t","i","o","n">> >>,
    <<<<"D","T">>, <<"D","e","t","e","r","m","i","n","e","r">> >>,
    <<<<"P","R","P">>, <<"P","r","o","n","o","u","n">> >>,
    <<<<"C","C">>, <<"C","o","n","j","u","n","c","t","i","o","n">> >>,
    <<<<"M","D">>, <<"M","o","d","a","l">> >>,
    <<<<"W","P">>, <<"W","h","-","p","r","o","n","o","u","n">> >>,
    <<<<"W","D","T">>, <<"W","h","-","d","e","t","e","r","m","i","n","e","r">> >>,
    <<<<"W","R","B">>, <<"W","h","-","a","d","v","e","r","b">> >>
  >>

common_verbs ==
  {
    <<"r","u","n">>,
    <<"w","a","l","k">>,
    <<"s","p","e","a","k">>,
    <<"w","o","r","k">>,
    <<"l","o","v","e">>,
    <<"h","a","t","e">>,
    <<"g","o">>,
    <<"c","o","m","e">>,
    <<"s","e","e">>,
    <<"h","e","a","r">>,
    <<"t","h","i","n","k">>,
    <<"k","n","o","w">>,
    <<"m","a","k","e">>,
    <<"t","a","k","e">>,
    <<"g","i","v","e">>
  }

common_adjectives ==
  {
    <<"g","o","o","d">>,
    <<"b","a","d">>,
    <<"b","e","a","u","t","i","f","u","l">>,
    <<"u","g","l","y">>,
    <<"h","a","p","p","y">>,
    <<"s","a","d">>,
    <<"b","i","g">>,
    <<"s","m","a","l","l">>,
    <<"h","o","t">>,
    <<"c","o","l","d">>,
    <<"n","e","w">>,
    <<"o","l","d">>,
    <<"f","a","s","t">>,
    <<"s","l","o","w">>
  }

\* word -> (synonyms, antonyms)
word_mappings ==
  <<
    <<<<"b","e","a","u","t","i","f","u","l">>,
      <<<<"p","r","e","t","t","y">>, <<"l","o","v","e","l","y">>, <<"a","t","t","r","a","c","t","i","v","e">>, <<"g","o","r","g","e","o","u","s">>, <<"s","t","u","n","n","i","n","g">>, <<"e","l","e","g","a","n","t">> >>,
      <<<<"u","g","l","y">>, <<"h","i","d","e","o","u","s">>, <<"u","n","a","t","t","r","a","c","t","i","v","e">> >> >>,
    <<<<"g","o","o","d">>,
      <<<<"g","r","e","a","t">>, <<"e","x","c","e","l","l","e","n","t">>, <<"f","i","n","e">>, <<"w","o","n","d","e","r","f","u","l">>, <<"s","u","p","e","r","b">>, <<"o","u","t","s","t","a","n","d","i","n","g">> >>,
      <<<<"b","a","d">>, <<"p","o","o","r">>, <<"t","e","r","r","i","b","l","e">>, <<"a","w","f","u","l">> >> >>,
    <<<<"h","a","p","p","y">>,
      <<<<"j","o","y","f","u","l">>, <<"c","h","e","e","r","f","u","l">>, <<"g","l","a","d">>, <<"p","l","e","a","s","e","d">>, <<"d","e","l","i","g","h","t","e","d">>, <<"e","l","a","t","e","d">> >>,
      <<<<"s","a","d">>, <<"u","n","h","a","p","p","y">>, <<"m","i","s","e","r","a","b","l","e">>, <<"d","e","p","r","e","s","s","e","d">> >> >>,
    <<<<"s","m","a","r","t">>,
      <<<<"i","n","t","e","l","l","i","g","e","n","t">>, <<"c","l","e","v","e","r">>, <<"b","r","i","l","l","i","a","n","t">>, <<"w","i","s","e">>, <<"b","r","i","g","h","t">> >>,
      <<<<"d","u","m","b">>, <<"s","t","u","p","i","d">>, <<"f","o","o","l","i","s","h">>, <<"i","g","n","o","r","a","n","t">> >> >>,
    <<<<"k","i","n","d">>,
      <<<<"n","i","c","e">>, <<"g","e","n","t","l","e">>, <<"c","a","r","i","n","g">>, <<"c","o","m","p","a","s","s","i","o","n","a","t","e">>, <<"t","h","o","u","g","h","t","f","u","l">> >>,
      <<<<"m","e","a","n">>, <<"c","r","u","e","l">>, <<"h","a","r","s","h">>, <<"u","n","k","i","n","d">> >> >>,
    <<<<"b","i","g">>,
      <<<<"l","a","r","g","e">>, <<"h","u","g","e">>, <<"e","n","o","r","m","o","u","s">>, <<"g","i","a","n","t">>, <<"m","a","s","s","i","v","e">>, <<"i","m","m","e","n","s","e">> >>,
      <<<<"s","m","a","l","l">>, <<"t","i","n","y">>, <<"l","i","t","t","l","e">>, <<"m","i","n","i","a","t","u","r","e">> >> >>,
    <<<<"s","m","a","l","l">>,
      <<<<"t","i","n","y">>, <<"l","i","t","t","l","e">>, <<"m","i","n","u","t","e">>, <<"c","o","m","p","a","c","t">>, <<"p","e","t","i","t","e">> >>,
      <<<<"b","i","g">>, <<"l","a","r","g","e">>, <<"h","u","g","e">>, <<"e","n","o","r","m","o","u","s">> >> >>,
    <<<<"t","a","l","l">>,
      <<<<"h","i","g","h">>, <<"l","o","f","t","y">>, <<"t","o","w","e","r","i","n","g">>, <<"e","l","e","v","a","t","e","d">> >>,
      <<<<"s","h","o","r","t">>, <<"l","o","w">>, <<"s","m","a","l","l">> >> >>,
    <<<<"f","a","s","t">>,
      <<<<"q","u","i","c","k">>, <<"r","a","p","i","d">>, <<"s","w","i","f","t">>, <<"s","p","e","e","d","y">>, <<"h","a","s","t","y">> >>,
      <<<<"s","l","o","w">>, <<"s","l","u","g","g","i","s","h">>, <<"l","e","i","s","u","r","e","l","y">> >> >>,
    <<<<"s","l","o","w">>,
      <<<<"l","e","i","s","u","r","e","l","y">>, <<"g","r","a","d","u","a","l">>, <<"u","n","h","u","r","r","i","e","d">>, <<"d","e","l","a","y","e","d">> >>,
      <<<<"f","a","s","t">>, <<"q","u","i","c","k">>, <<"r","a","p","i","d">>, <<"s","w","i","f","t">> >> >>,
    <<<<"h","o","t">>,
      <<<<"w","a","r","m">>, <<"h","e","a","t","e","d">>, <<"b","u","r","n","i","n","g">>, <<"s","c","o","r","c","h","i","n","g">> >>,
      <<<<"c","o","l","d">>, <<"c","o","o","l">>, <<"f","r","e","e","z","i","n","g">>, <<"c","h","i","l","l","y">> >> >>,
    <<<<"c","o","l","d">>,
      <<<<"c","o","o","l">>, <<"c","h","i","l","l","y">>, <<"f","r","e","e","z","i","n","g">>, <<"i","c","y">>, <<"f","r","i","g","i","d">> >>,
      <<<<"h","o","t">>, <<"w","a","r","m">>, <<"h","e","a","t","e","d">> >> >>,
    <<<<"e","a","s","y">>,
      <<<<"s","i","m","p","l","e">>, <<"e","f","f","o","r","t","l","e","s","s">>, <<"s","t","r","a","i","g","h","t","f","o","r","w","a","r","d">>, <<"u","n","c","o","m","p","l","i","c","a","t","e","d">> >>,
      <<<<"h","a","r","d">>, <<"d","i","f","f","i","c","u","l","t">>, <<"c","h","a","l","l","e","n","g","i","n","g">>, <<"c","o","m","p","l","e","x">> >> >>,
    <<<<"h","a","r","d">>,
      <<<<"d","i","f","f","i","c","u","l","t">>, <<"c","h","a","l","l","e","n","g","i","n","g">>, <<"t","o","u","g","h">>, <<"d","e","m","a","n","d","i","n","g">> >>,
      <<<<"e","a","s","y">>, <<"s","i","m","p","l","e">>, <<"e","f","f","o","r","t","l","e","s","s">> >> >>,
    <<<<"n","e","w">>,
      <<<<"f","r","e","s","h">>, <<"r","e","c","e","n","t">>, <<"m","o","d","e","r","n">>, <<"l","a","t","e","s","t">>, <<"c","o","n","t","e","m","p","o","r","a","r","y">> >>,
      <<<<"o","l","d">>, <<"a","n","c","i","e","n","t">>, <<"o","u","t","d","a","t","e","d">>, <<"v","i","n","t","a","g","e">> >> >>,
    <<<<"o","l","d">>,
      <<<<"a","n","c","i","e","n","t">>, <<"a","g","e","d">>, <<"v","i","n","t","a","g","e">>, <<"a","n","t","i","q","u","e">> >>,
      <<<<"n","e","w">>, <<"f","r","e","s","h">>, <<"r","e","c","e","n","t">>, <<"m","o","d","e","r","n">> >> >>,
    <<<<"l","o","v","e">>,
      <<<<"a","d","o","r","e">>, <<"c","h","e","r","i","s","h">>, <<"t","r","e","a","s","u","r","e">>, <<"a","p","p","r","e","c","i","a","t","e">> >>,
      <<<<"h","a","t","e">>, <<"d","e","s","p","i","s","e">>, <<"d","e","t","e","s","t">> >> >>,
    <<<<"h","a","t","e">>,
      <<<<"d","e","s","p","i","s","e">>, <<"d","e","t","e","s","t">>, <<"l","o","a","t","h","e">>, <<"a","b","h","o","r">> >>,
      <<<<"l","o","v","e">>, <<"a","d","o","r","e">>, <<"l","i","k","e">> >> >>,
    <<<<"l","i","g","h","t">>,
      <<<<"b","r","i","g","h","t">>, <<"i","l","l","u","m","i","n","a","t","e","d">>, <<"r","a","d","i","a","n","t">>, <<"l","u","m","i","n","o","u","s">> >>,
      <<<<"d","a","r","k">>, <<"d","i","m">>, <<"s","h","a","d","o","w","y">> >> >>,
    <<<<"d","a","r","k">>,
      <<<<"d","i","m">>, <<"s","h","a","d","o","w","y">>, <<"m","u","r","k","y">>, <<"g","l","o","o","m","y">> >>,
      <<<<"l","i","g","h","t">>, <<"b","r","i","g","h","t">>, <<"i","l","l","u","m","i","n","a","t","e","d">> >> >>,
    <<<<"h","e","l","l","o">>,
      <<<<"h","i">>, <<"g","r","e","e","t","i","n","g">>, <<"w","e","l","c","o","m","e">>, <<"s","a","l","u","t","a","t","i","o","n">>, <<"h","o","w","d","y">> >>,
      <<<<"g","o","o","d","b","y","e">>, <<"f","a","r","e","w","e","l","l">>, <<"b","y","e">> >> >>,
    <<<<"g","o","o","d","b","y","e">>,
      <<<<"f","a","r","e","w","e","l","l">>, <<"b","y","e">>, <<"s","e","e"," ","y","o","u"," ","l","a","t","e","r">>, <<"a","d","i","e","u">> >>,
      <<<<"h","e","l","l","o">>, <<"h","i">>, <<"w","e","l","c","o","m","e">> >> >>,
    <<<<"r","u","n">>,
      <<<<"s","p","r","i","n","t">>, <<"d","a","s","h">>, <<"j","o","g">>, <<"r","a","c","e">>, <<"h","u","r","r","y">> >>,
      <<<<"w","a","l","k">>, <<"s","t","r","o","l","l">>, <<"c","r","a","w","l">> >> >>,
    <<<<"w","a","l","k">>,
      <<<<"s","t","r","o","l","l">>, <<"a","m","b","l","e">>, <<"m","a","r","c","h">>, <<"s","t","r","i","d","e">> >>,
      <<<<"r","u","n">>, <<"s","p","r","i","n","t">>, <<"d","a","s","h">> >> >>,
    <<<<"s","p","e","a","k">>,
      <<<<"t","a","l","k">>, <<"c","o","m","m","u","n","i","c","a","t","e">>, <<"c","o","n","v","e","r","s","e">>, <<"c","h","a","t">> >>,
      <<<<"l","i","s","t","e","n">>, <<"h","e","a","r">> >> >>,
    <<<<"w","o","r","k">>,
      <<<<"l","a","b","o","r">>, <<"t","o","i","l">>, <<"o","p","e","r","a","t","e">>, <<"f","u","n","c","t","i","o","n">> >>,
      <<<<"r","e","s","t">>, <<"r","e","l","a","x">>, <<"p","l","a","y">> >> >>
  >>

\* word -> definition
definitions ==
  <<
    <<<<"b","e","a","u","t","i","f","u","l">>,
      <<"p","l","e","a","s","i","n","g"," ","t","o"," ","t","h","e"," ","s","e","n","s","e","s"," ","o","r"," ","m","i","n","d"," ","a","e","s","t","h","e","t","i","c","a","l","l","y">> >>,
    <<<<"g","o","o","d">>,
      <<"h","a","v","i","n","g"," ","t","h","e"," ","r","i","g","h","t"," ","o","r"," ","d","e","s","i","r","e","d"," ","q","u","a","l","i","t","i","e","s",";"," ","s","a","t","i","s","f","a","c","t","o","r","y">> >>,
    <<<<"h","a","p","p","y">>,
      <<"f","e","e","l","i","n","g"," ","o","r"," ","s","h","o","w","i","n","g"," ","p","l","e","a","s","u","r","e"," ","o","r"," ","c","o","n","t","e","n","t","m","e","n","t">> >>,
    <<<<"s","m","a","r","t">>,
      <<"h","a","v","i","n","g"," ","o","r"," ","s","h","o","w","i","n","g"," ","i","n","t","e","l","l","i","g","e","n","c","e"," ","o","r"," ","g","o","o","d"," ","j","u","d","g","m","e","n","t">> >>,
    <<<<"k","i","n","d">>,
      <<"h","a","v","i","n","g"," ","o","r"," ","s","h","o","w","i","n","g"," ","a"," ","f","r","i","e","n","d","l","y",","," ","g","e","n","e","r","o","u","s"," ","n","a","t","u","r","e">> >>,
    <<<<"b","i","g">>,
      <<"o","f"," ","c","o","n","s","i","d","e","r","a","b","l","e"," ","s","i","z","e",","," ","e","x","t","e","n","t",","," ","o","r"," ","i","n","t","e","n","s","i","t","y">> >>,
    <<<<"s","m","a","l","l">>,
      <<"o","f"," ","a"," ","s","i","z","e"," ","t","h","a","t"," ","i","s"," ","l","e","s","s"," ","t","h","a","n"," ","n","o","r","m","a","l"," ","o","r"," ","u","s","u","a","l">> >>,
    <<<<"f","a","s","t">>,
      <<"m","o","v","i","n","g"," ","o","r"," ","c","a","p","a","b","l","e"," ","o","f"," ","m","o","v","i","n","g"," ","a","t"," ","h","i","g","h"," ","s","p","e","e","d">> >>,
    <<<<"s","l","o","w">>,
      <<"m","o","v","i","n","g"," ","o","r"," ","o","p","e","r","a","t","i","n","g"," ","a","t"," ","a"," ","l","o","w"," ","s","p","e","e","d">> >>,
    <<<<"h","o","t">>,
      <<"h","a","v","i","n","g"," ","a"," ","h","i","g","h"," ","d","e","g","r","e","e"," ","o","f"," ","h","e","a","t"," ","o","r"," ","t","e","m","p","e","r","a","t","u","r","e">> >>,
    <<<<"c","o","l","d">>,
      <<"o","f"," ","o","r"," ","a","t"," ","a"," ","l","o","w"," ","t","e","m","p","e","r","a","t","u","r","e">> >>,
    <<<<"e","a","s","y">>,
      <<"a","c","h","i","e","v","e","d"," ","w","i","t","h"," ","e","a","s","e",";"," ","n","o","t"," ","d","i","f","f","i","c","u","l","t">> >>,
    <<<<"h","a","r","d">>,
      <<"s","o","l","i","d",","," ","f","i","r","m",","," ","a","n","d"," ","r","e","s","i","s","t","a","n","t"," ","t","o"," ","p","r","e","s","s","u","r","e">> >>,
    <<<<"n","e","w">>,
      <<"n","o","t"," ","e","x","i","s","t","i","n","g"," ","b","e","f","o","r","e",";"," ","m","a","d","e"," ","o","r"," ","i","n","t","r","o","d","u","c","e","d"," ","r","e","c","e","n","t","l","y">> >>,
    <<<<"o","l","d">>,
      <<"h","a","v","i","n","g"," ","l","i","v","e","d"," ","f","o","r"," ","a"," ","l","o","n","g"," ","t","i","m","e",";"," ","n","o"," ","l","o","n","g","e","r"," ","y","o","u","n","g">> >>,
    <<<<"l","o","v","e">>,
      <<"f","e","e","l"," ","d","e","e","p"," ","a","f","f","e","c","t","i","o","n"," ","o","r"," ","s","e","x","u","a","l"," ","l","o","v","e"," ","f","o","r"," ","s","o","m","e","o","n","e">> >>,
    <<<<"h","a","t","e">>,
      <<"f","e","e","l"," ","i","n","t","e","n","s","e"," ","d","i","s","l","i","k","e"," ","f","o","r"," ","s","o","m","e","t","h","i","n","g"," ","o","r"," ","s","o","m","e","o","n","e">> >>,
    <<<<"r","u","n">>,
      <<"m","o","v","e"," ","a","t"," ","a"," ","s","p","e","e","d"," ","f","a","s","t","e","r"," ","t","h","a","n"," ","w","a","l","k","i","n","g">> >>,
    <<<<"w","a","l","k">>,
      <<"m","o","v","e"," ","a","t"," ","a"," ","r","e","g","u","l","a","r"," ","p","a","c","e"," ","b","y"," ","l","i","f","t","i","n","g"," ","a","n","d"," ","s","e","t","t","i","n","g"," ","d","o","w","n"," ","e","a","c","h"," ","f","o","o","t">> >>,
    <<<<"s","p","e","a","k">>,
      <<"s","a","y"," ","s","o","m","e","t","h","i","n","g"," ","i","n"," ","o","r","d","e","r"," ","t","o"," ","c","o","n","v","e","y"," ","i","n","f","o","r","m","a","t","i","o","n"," ","o","r"," ","e","x","p","r","e","s","s"," ","f","e","e","l","i","n","g","s">> >>,
    <<<<"w","o","r","k">>,
      <<"a","c","t","i","v","i","t","y"," ","i","n","v","o","l","v","i","n","g"," ","m","e","n","t","a","l"," ","o","r"," ","p","h","y","s","i","c","a","l"," ","e","f","f","o","r","t"," ","t","o"," ","a","c","h","i","e","v","e"," ","a"," ","r","e","s","u","l","t">> >>,
    <<<<"h","e","l","l","o">>,
      <<"u","s","e","d"," ","a","s"," ","a"," ","g","r","e","e","t","i","n","g"," ","o","r"," ","t","o"," ","b","e","g","i","n"," ","a"," ","c","o","n","v","e","r","s","a","t","i","o","n">> >>,
    <<<<"g","o","o","d","b","y","e">>,
      <<"u","s","e","d"," ","t","o"," ","e","x","p","r","e","s","s"," ","g","o","o","d"," ","w","i","s","h","e","s"," ","w","h","e","n"," ","p","a","r","t","i","n","g">> >>
  >>

\* word -> (text before the word, text after the word) of the f-string
examples ==
  <<
    <<<<"b","e","a","u","t","i","f","u","l">>,
      <<"T","h","e"," ","s","u","n","s","e","t"," ","w","a","s"," ","a","b","s","o","l","u","t","e","l","y"," ">>,
      <<".">> >>,
    <<<<"g","o","o","d">>,
      <<"S","h","e"," ","d","i","d"," ","a"," ">>,
      <<" ","j","o","b"," ","o","n"," ","t","h","e"," ","p","r","o","j","e","c","t",".">> >>,
    <<<<"h","a","p","p","y">>,
      <<"T","h","e"," ","c","h","i","l","d","r","e","n"," ","w","e","r","e"," ">>,
      <<" ","t","o"," ","s","e","e"," ","t","h","e","i","r"," ","g","r","a","n","d","m","o","t","h","e","r",".">> >>,
    <<<<"s","m","a","r","t">>,
      <<"H","e"," ","i","s"," ","a"," ","v","e","r","y"," ">>,
      <<" ","s","t","u","d","e","n","t",".">> >>,
    <<<<"k","i","n","d">>,
      <<"S","h","e"," ","h","a","s"," ","a"," ">>,
      <<" ","h","e","a","r","t"," ","a","n","d"," ","h","e","l","p","s"," ","e","v","e","r","y","o","n","e",".">> >>,
    <<<<"b","i","g">>,
      <<"T","h","e"," ","e","l","e","p","h","a","n","t"," ","i","s"," ","a"," ">>,
      <<" ","a","n","i","m","a","l",".">> >>,
    <<<<"s","m","a","l","l">>,
      <<"T","h","e"," ","m","o","u","s","e"," ","i","s"," ","a"," ">>,
      <<" ","c","r","e","a","t","u","r","e",".">> >>,
    <<<<"f","a","s","t">>,
      <<"T","h","e"," ","c","h","e","e","t","a","h"," ","i","s"," ","a"," ">>,
      <<" ","r","u","n","n","e","r",".">> >>,
    <<<<"s","l","o","w">>,
      <<"T","h","e"," ","t","u","r","t","l","e"," ","m","o","v","e","s"," ","a","t"," ","a"," ">>,
      <<" ","p","a","c","e",".">> >>,
    <<<<"h","o","t">>,
      <<"T","h","e"," ","c","o","f","f","e","e"," ","i","s"," ","t","o","o"," ">>,
      <<" ","t","o"," ","d","r","i","n","k",".">> >>,
    <<<<"c","o","l","d">>,
      <<"I","t","'","s"," ">>,
      <<" ","o","u","t","s","i","d","e",","," ","s","o"," ","w","e","a","r"," ","a"," ","j","a","c","k","e","t",".">> >>,
    <<<<"e","a","s","y">>,
      <<"T","h","i","s"," ","p","u","z","z","l","e"," ","i","s"," ">>,
      <<" ","t","o"," ","s","o","l","v","e",".">> >>,
    <<<<"h","a","r","d">>,
      <<"T","h","e"," ","e","x","a","m"," ","w","a","s"," ">>,
      <<","," ","b","u","t"," ","I"," ","s","t","u","d","i","e","d"," ","w","e","l","l",".">> >>,
    <<<<"n","e","w">>,
      <<"I"," ","b","o","u","g","h","t"," ","a"," ">>,
      <<" ","c","a","r"," ","y","e","s","t","e","r","d","a","y",".">> >>,
    <<<<"o","l","d">>,
      <<"T","h","e"," ">>,
      <<" ","o","a","k"," ","t","r","e","e"," ","h","a","s"," ","s","t","o","o","d"," ","h","e","r","e"," ","f","o","r"," ","c","e","n","t","u","r","i","e","s",".">> >>,
    <<<<"l","o","v","e">>,
      <<"I"," ">>,
      <<" ","s","p","e","n","d","i","n","g"," ","t","i","m","e"," ","w","i","t","h"," ","m","y"," ","f","a","m","i","l","y",".">> >>,
    <<<<"h","a","t","e">>,
      <<"I"," ">>,
      <<" ","w","a","i","t","i","n","g"," ","i","n"," ","l","o","n","g"," ","l","i","n","e","s",".">> >>,
    <<<<"r","u","n">>,
      <<"E","v","e","r","y"," ","m","o","r","n","i","n","g",","," ","I"," ">>,
      <<" ","i","n"," ","t","h","e"," ","p","a","r","k",".">> >>,
    <<<<"w","a","l","k">>,
      <<"L","e","t","'","s"," ">>,
      <<" ","t","o"," ","t","h","e"," ","s","t","o","r","e"," ","t","o","g","e","t","h","e","r",".">> >>,
    <<<<"s","p","e","a","k">>,
      <<"C","a","n"," ","y","o","u"," ">>,
      <<" ","m","o","r","e"," ","s","l","o","w","l","y",","," ","p","l","e","a","s","e","?">> >>,
    <<<<"w","o","r","k">>,
      <<"I"," ","n","e","e","d"," ","t","o"," ">>,
      <<" ","l","a","t","e"," ","t","o","n","i","g","h","t"," ","t","o"," ","f","i","n","i","s","h"," ","t","h","i","s"," ","p","r","o","j","e","c","t",".">> >>,
    <<<<"h","e","l","l","o">>,
      <<"S","h","e"," ","s","a","i","d"," ","'">>,
      <<"'"," ","w","h","e","n"," ","s","h","e"," ","e","n","t","e","r","e","d"," ","t","h","e"," ","r","o","o","m",".">> >>,
    <<<<"g","o","o","d","b","y","e">>,
      <<"I","t","'","s"," ","h","a","r","d"," ","t","o"," ","s","a","y"," ","'">>,
      <<"'"," ","t","o"," ","o","l","d"," ","f","r","i","e","n","d","s",".">> >>
  >>

\* word -> antonyms, Flask variant
common_antonyms ==
  <<
    <<<<"g","o","o","d">>, <<<<"b","a","d">>, <<"e","v","i","l">>, <<"p","o","o","r">>, <<"t","e","r","r","i","b","l","e">> >> >>,
    <<<<"b","e","a","u","t","i","f","u","l">>, <<<<"u","g","l","y">>, <<"h","i","d","e","o","u","s">>, <<"r","e","p","u","l","s","i","v","e">> >> >>,
    <<<<"h","a","p","p","y">>, <<<<"s","a","d">>, <<"u","n","h","a","p","p","y">>, <<"m","i","s","e","r","a","b","l","e">>, <<"d","e","p","r","e","s","s","e","d">> >> >>,
    <<<<"b","i","g">>, <<<<"s","m","a","l","l">>, <<"t","i","n","y">>, <<"l","i","t","t","l","e">>, <<"m","i","n","i","a","t","u","r","e">> >> >>,
    <<<<"f","a","s","t">>, <<<<"s","l","o","w">>, <<"s","l","u","g","g","i","s","h">> >> >>,
    <<<<"h","o","t">>, <<<<"c","o","l","d">>, <<"f","r","e","e","z","i","n","g">>, <<"c","o","o","l">> >> >>,
    <<<<"l","i","g","h","t">>, <<<<"d","a","r","k">>, <<"h","e","a","v","y">> >> >>,
    <<<<"e","a","s","y">>, <<<<"h","a","r","d">>, <<"d","i","f","f","i","c","u","l","t">>, <<"c","h","a","l","l","e","n","g","i","n","g">> >> >>,
    <<<<"n","e","w">>, <<<<"o","l","d">>, <<"a","n","c","i","e","n","t">>, <<"v","i","n","t","a","g","e">> >> >>,
    <<<<"c","l","e","a","n">>, <<<<"d","i","r","t","y">>, <<"f","i","l","t","h","y">>, <<"m","e","s","s","y">> >> >>,
    <<<<"r","i","c","h">>, <<<<"p","o","o","r">>, <<"b","r","o","k","e">> >> >>,
    <<<<"s","t","r","o","n","g">>, <<<<"w","e","a","k">>, <<"f","e","e","b","l","e">> >> >>,
    <<<<"t","a","l","l">>, <<<<"s","h","o","r","t">>, <<"s","m","a","l","l">> >> >>,
    <<<<"w","i","d","e">>, <<<<"n","a","r","r","o","w">>, <<"t","h","i","n">> >> >>,
    <<<<"t","h","i","c","k">>, <<<<"t","h","i","n">>, <<"s","l","i","m">> >> >>,
    <<<<"l","o","u","d">>, <<<<"q","u","i","e","t">>, <<"s","i","l","e","n","t">> >> >>,
    <<<<"b","r","i","g","h","t">>, <<<<"d","i","m">>, <<"d","a","r","k">> >> >>,
    <<<<"s","m","o","o","t","h">>, <<<<"r","o","u","g","h">>, <<"b","u","m","p","y">> >> >>,
    <<<<"s","o","f","t">>, <<<<"h","a","r","d">>, <<"r","o","u","g","h">> >> >>,
    <<<<"y","o","u","n","g">>, <<<<"o","l","d">>, <<"e","l","d","e","r","l","y">> >> >>,
    <<<<"e","a","r","l","y">>, <<<<"l","a","t","e">> >> >>,
    <<<<"e","m","p","t","y">>, <<<<"f","u","l","l">> >> >>,
    <<<<"o","p","e","n">>, <<<<"c","l","o","s","e","d">>, <<"s","h","u","t">> >> >>,
    <<<<"h","i","g","h">>, <<<<"l","o","w">> >> >>,
    <<<<"l","o","n","g">>, <<<<"s","h","o","r","t">> >> >>,
    <<<<"n","e","a","r">>, <<<<"f","a","r">>, <<"d","i","s","t","a","n","t">> >> >>,
    <<<<"f","i","r","s","t">>, <<<<"l","a","s","t">> >> >>,
    <<<<"b","e","g","i","n">>, <<<<"e","n","d">>, <<"f","i","n","i","s","h">> >> >>,
    <<<<"s","t","a","r","t">>, <<<<"s","t","o","p">>, <<"e","n","d">> >> >>,
    <<<<"l","o","v","e">>, <<<<"h","a","t","e">>, <<"d","e","s","p","i","s","e">> >> >>,
    <<<<"l","i","k","e">>, <<<<"d","i","s","l","i","k","e">>, <<"h","a","t","e">> >> >>,
    <<<<"w","i","n">>, <<<<"l","o","s","e">>, <<"f","a","i","l">> >> >>,
    <<<<"g","i","v","e">>, <<<<"t","a","k","e">>, <<"r","e","c","e","i","v","e">> >> >>,
    <<<<"b","u","y">>, <<<<"s","e","l","l">> >> >>,
    <<<<"p","u","s","h">>, <<<<"p","u","l","l">> >> >>,
    <<<<"u","p">>, <<<<"d","o","w","n">> >> >>,
    <<<<"i","n">>, <<<<"o","u","t">> >> >>,
    <<<<"o","n">>, <<<<"o","f","f">> >> >>,
    <<<<"y","e","s">>, <<<<"n","o">> >> >>,
    <<<<"t","r","u","e">>, <<<<"f","a","l","s","e">> >> >>,
    <<<<"r","i","g","h","t">>, <<<<"w","r","o","n","g">>, <<"l","e","f","t">> >> >>,
    <<<<"a","l","w","a","y","s">>, <<<<"n","e","v","e","r">> >> >>,
    <<<<"e","v","e","r","y","t","h","i","n","g">>, <<<<"n","o","t","h","i","n","g">> >> >>,
    <<<<"e","v","e","r","y","o","n","e">>, <<<<"n","o","b","o","d","y">> >> >>,
    <<<<"e","v","e","r","y","w","h","e","r","e">>, <<<<"n","o","w","h","e","r","e">> >> >>
  >>

\* dict membership and lookup on a table of rows <<key, ...>>
has_key(table, k) == \E i \in DOMAIN table : table[i][1] = k

row_of(table, k) == table[CHOOSE i \in DOMAIN table : table[i][1] = k]

\* ------------------------------------------------------------------------
\* State
\* ------------------------------------------------------------------------

VARIABLES
  variant,         \* which program runs in this process: "lambda" or "flask"
  NLTK_AVAILABLE,  \* module flag set by the guarded import
  nltk_ready,      \* NLPProcessor.nltk_ready
  wordnet,         \* the external source's answers, fixed for the process
  tagger,          \* the tokenizer's and the tagger's answers, fixed for the process
  hashseed,        \* the process's string-hash seed, which fixes the order of list(set)
  request,         \* the request handled last
  response,        \* the answer given to it
  calls,           \* the facet resolvers invoked while handling it
  prev,            \* the previous answer, when the previous request was this same request
  threads          \* the requests in progress when several are served at once

vars == <<variant, NLTK_AVAILABLE, nltk_ready, wordnet, tagger, hashseed,
          request, response, calls, prev, threads>>

\* no request is on record
NoRequest == [method |-> "", path |-> "", body |-> "absent", word_kind |-> "absent",
              word |-> << >>]

\* ------------------------------------------------------------------------
\* The external lexical source (WordNet, the tokenizer and the tagger)
\*
\* A lemma is [name, antonyms, antonyms_raises]; a synset is
\* [definition, examples, lemmas, similar_tos, similar_raises], similar_tos
\* being the lemma names of each similar synset; an answer of
\* wordnet.synsets is [raises, synsets].
\* ------------------------------------------------------------------------

Lemma(name, antonyms) == [name |-> name, antonyms |-> antonyms, antonyms_raises |-> FALSE]

LemmaRaising(name) == [name |-> name, antonyms |-> << >>, antonyms_raises |-> TRUE]

Synset(definition, exs, lemmas, similar) ==
  [definition |-> definition, examples |-> exs, lemmas |-> lemmas,
   similar_tos |-> similar, similar_raises |-> FALSE]

SynsetRaising(definition, exs, lemmas) ==
  [definition |-> definition, examples |-> exs, lemmas |-> lemmas,
   similar_tos |-> << >>, similar_raises |-> TRUE]

Answer(synsets) == [raises |-> FALSE, synsets |-> synsets]

AnswerRaising == [raises |-> TRUE, synsets |-> << >>]

\* the words looked up as related words: the process's second answer is theirs
RelatedWords == {<<"g","r","e","a","t">>, <<"f","i","n","e","_","d","a","y">>, <<"n","i","c","e">>, <<"s","w","e","l","l">>}

\* wordnet.synsets(word)
synsets(word) == IF word \in RelatedWords THEN wordnet.rel ELSE wordnet.head

\* ------------------------------------------------------------------------
\* list(set): the iteration order of a set of strings is fixed by the
\* process's hash seed; seed 0 is modelled as ascending and seed 1 as
\* descending lexicographic order.
\* ------------------------------------------------------------------------

RECURSIVE str_less(_, _)
str_less(a, b) ==
  IF Len(b) = 0 THEN FALSE
  ELSE IF Len(a) = 0 THEN TRUE
  ELSE IF a[1] = b[1] THEN str_less(Tail(a), Tail(b))
  ELSE RankOf[a[1]] < RankOf[b[1]]

\* l, which is sorted, with x put in its place
RECURSIVE inserted(_, _)
inserted(x, l) ==
  IF Len(l) = 0 THEN <<x>>
  ELSE IF str_less(x, l[1]) THEN <<x>> \o l
  ELSE <<l[1]>> \o inserted(x, Tail(l))

RECURSIVE ascending(_)
ascending(S) ==
  IF S = {} THEN << >>
  ELSE LET x == CHOOSE y \in S : TRUE
       IN  inserted(x, ascending(S \ {x}))

reversed(l) == [i \in 1..Len(l) |-> l[Len(l) + 1 - i]]

\* a faulty variant of list_of_set: the order changes from one call of the
\* handler to the next
list_of_set_unstable(S) ==
  IF (hashseed = 0) = (request = NoRequest) THEN ascending(S) ELSE reversed(ascending(S))

\* list(S)
list_of_set(S) == IF hashseed = 0 THEN ascending(S) ELSE reversed(ascending(S))

\* the union of the sets seq[1], ..., seq[Len(seq)]
RECURSIVE union_of(_)
union_of(seq) == IF Len(seq) = 0 THEN {} ELSE seq[1] \cup union_of(Tail(seq))

\* ------------------------------------------------------------------------
\* Lambda variant: fallback methods
\* ------------------------------------------------------------------------

VerbSuffixes == {<<"i","n","g">>, <<"e","d">>, <<"a","t","e">>, <<"i","z","e">>, <<"i","f","y">>}

AdjectiveSuffixes == {<<"f","u","l">>, <<"l","e","s","s">>, <<"o","u","s">>, <<"i","v","e">>, <<"a","b","l","e">>, <<"i","b","l","e">>, <<"a","l">>, <<"i","c">>}

\* a faulty variant of _get_fallback_pos: the known-word lists are not consulted
_get_fallback_pos_suffixes_only(word0) ==
  LET word == strip(lower(word0))
  IN  IF \E suf \in VerbSuffixes : endswith(word, suf) THEN <<"V","e","r","b">>
      ELSE IF \E suf \in AdjectiveSuffixes : endswith(word, suf) THEN <<"A","d","j","e","c","t","i","v","e">>
      ELSE IF endswith(word, <<"l","y">>) /\ Len(word) > 3 THEN <<"A","d","v","e","r","b">>
      ELSE <<"N","o","u","n">>

\* a faulty variant of _get_fallback_pos: the known-word lists are consulted
\* before the suffixes
_get_fallback_pos_lists_first(word0) ==
  LET word == strip(lower(word0))
  IN  IF word \in common_verbs THEN <<"V","e","r","b">>
      ELSE IF word \in common_adjectives THEN <<"A","d","j","e","c","t","i","v","e">>
      ELSE IF \E suf \in VerbSuffixes : endswith(word, suf) THEN <<"V","e","r","b">>
      ELSE IF \E suf \in AdjectiveSuffixes : endswith(word, suf) THEN <<"A","d","j","e","c","t","i","v","e">>
      ELSE IF endswith(word, <<"l","y">>) /\ Len(word) > 3 THEN <<"A","d","v","e","r","b">>
      ELSE <<"N","o","u","n">>

_get_fallback_pos(word0) ==
  LET word == strip(lower(word0))
  IN  IF \E suf \in VerbSuffixes : endswith(word, suf) THEN <<"V","e","r","b">>
      ELSE IF \E suf \in AdjectiveSuffixes : endswith(word, suf) THEN <<"A","d","j","e","c","t","i","v","e">>
      ELSE IF endswith(word, <<"l","y">>) /\ Len(word) > 3 THEN <<"A","d","v","e","r","b">>
      ELSE IF word \in common_verbs THEN <<"V","e","r","b">>
      ELSE IF word \in common_adjectives THEN <<"A","d","j","e","c","t","i","v","e">>
      ELSE <<"N","o","u","n">>

\* a faulty variant of _get_fallback_synonyms_antonyms: the prefix rules give
\* the base word as the antonym
_get_fallback_synonyms_antonyms_base(word0) ==
  LET word == lower(word0)
  IN  IF has_key(word_mappings, word)
        THEN [synonyms |-> row_of(word_mappings, word)[2],
              antonyms |-> row_of(word_mappings, word)[3], rule |-> "table"]
      ELSE IF startswith(word, <<"u","n">>)
        THEN LET base_word == SubSeq(word, 3, Len(word))
             IN  [synonyms |-> <<<<"r","e">> \o base_word, base_word>>,
                  antonyms |-> <<base_word>>, rule |-> "un"]
      ELSE IF startswith(word, <<"i","n">>)
        THEN LET base_word == SubSeq(word, 3, Len(word))
             IN  [synonyms |-> <<base_word>>, antonyms |-> <<base_word>>, rule |-> "in"]
      ELSE [synonyms |-> <<<<"s","i","m","i","l","a","r">>, <<"a","l","i","k","e">> >>,
            antonyms |-> <<<<"d","i","f","f","e","r","e","n","t">>, <<"o","p","p","o","s","i","t","e">> >>, rule |-> "generic"]

\* the result is [synonyms, antonyms, rule]; rule names the branch taken
_get_fallback_synonyms_antonyms(word0) ==
  LET word == lower(word0)
  IN  IF has_key(word_mappings, word)
        THEN [synonyms |-> row_of(word_mappings, word)[2],
              antonyms |-> row_of(word_mappings, word)[3], rule |-> "table"]
      ELSE IF startswith(word, <<"u","n">>)
        THEN LET base_word == SubSeq(word, 3, Len(word))
             IN  [synonyms |-> <<<<"r","e">> \o base_word, base_word>>,
                  antonyms |-> <<word>>, rule |-> "un"]
      ELSE IF startswith(word, <<"i","n">>)
        THEN LET base_word == SubSeq(word, 3, Len(word))
             IN  [synonyms |-> <<base_word>>, antonyms |-> <<word>>, rule |-> "in"]
      ELSE [synonyms |-> <<<<"s","i","m","i","l","a","r">>, <<"a","l","i","k","e">> >>,
            antonyms |-> <<<<"d","i","f","f","e","r","e","n","t">>, <<"o","p","p","o","s","i","t","e">> >>, rule |-> "generic"]

_get_fallback_definition(word0) ==
  LET word == lower(word0)
  IN  IF has_key(definitions, word) THEN row_of(definitions, word)[2]
      ELSE <<"A"," ","c","o","m","m","o","n"," ","E","n","g","l","i","s","h"," ","w","o","r","d"," ","m","e","a","n","i","n","g"," ","\"">> \o word \o <<"\"">>

_get_fallback_example(word) ==
  LET word_lower == lower(word)
  IN  IF has_key(examples, word_lower)
        THEN row_of(examples, word_lower)[2] \o word \o row_of(examples, word_lower)[3]
      ELSE LET pos == _get_fallback_pos(word_lower)
           IN  IF pos = <<"A","d","j","e","c","t","i","v","e">> THEN <<"T","h","e"," ">> \o word \o <<" ","s","k","y"," ","l","o","o","k","e","d"," ","m","a","g","n","i","f","i","c","e","n","t",".">>
               ELSE IF pos = <<"V","e","r","b">> THEN <<"I"," ","o","f","t","e","n"," ">> \o word \o <<" ","w","h","e","n"," ","I"," ","h","a","v","e"," ","f","r","e","e"," ","t","i","m","e",".">>
               ELSE <<"T","h","e"," ">> \o word \o <<" ","c","a","u","g","h","t"," ","e","v","e","r","y","o","n","e","'","s"," ","a","t","t","e","n","t","i","o","n",".">>

\* ------------------------------------------------------------------------
\* Lambda variant: facet resolvers
\* ------------------------------------------------------------------------

\* pos_mapping.get(pos_code, f"Other ({pos_code})")
map_pos(pos_code) ==
  IF has_key(pos_mapping, pos_code) THEN row_of(pos_mapping, pos_code)[2]
  ELSE <<"O","t","h","e","r"," ","(">> \o pos_code \o <<")">>

\* a faulty variant of get_part_of_speech: an exception of the tokenizer or the
\* tagger is answered with "Unknown"
get_part_of_speech_unguarded(word) ==
  IF ~nltk_ready THEN _get_fallback_pos(word)
  ELSE IF tagger.tokenize = "raise" THEN <<"U","n","k","n","o","w","n">>
  ELSE IF tagger.tokenize = "empty" THEN _get_fallback_pos(word)
  ELSE IF tagger.tag_raises THEN <<"U","n","k","n","o","w","n">>
  ELSE map_pos(tagger.code)

get_part_of_speech(word) ==
  IF ~nltk_ready THEN _get_fallback_pos(word)
  ELSE IF tagger.tokenize = "raise" THEN _get_fallback_pos(word)
  ELSE IF tagger.tokenize = "empty" THEN _get_fallback_pos(word)
  ELSE IF tagger.tag_raises THEN _get_fallback_pos(word)
  ELSE map_pos(tagger.code)

\* lemma.name().replace('_', ' ')
display_name(name) == replace_char(name, "_", " ")

synonym_ok(synonym, word) ==
  /\ lower(synonym) # lower(word)
  /\ Len(synonym) > 1
  /\ isalpha(remove_char(synonym, " "))

antonym_ok(antonym_name) ==
  /\ Len(antonym_name) > 1
  /\ isalpha(remove_char(antonym_name, " "))

SynonymLimit == 8

AntonymLimit == 6

FallbackAntonymLimit == 4

FewSynonyms == 3

SynsetLimit == 5

SimilarLimit == 2

\* the synonyms one synset adds: its lemmas, then the lemmas of its first
\* similar synsets unless similar_tos() raises
synset_synonyms(syn, word) ==
  LET own == {display_name(syn.lemmas[i].name) : i \in DOMAIN syn.lemmas}
      sims == IF syn.similar_raises THEN << >> ELSE take(syn.similar_tos, SimilarLimit)
      similar == UNION {{display_name(sims[i][j]) : j \in DOMAIN sims[i]} : i \in DOMAIN sims}
  IN  {s \in own \cup similar : synonym_ok(s, word)}

\* the antonyms one synset adds: those of each lemma whose antonyms() does not raise
synset_antonyms(syn) ==
  LET of_lemma(lemma) ==
        IF lemma.antonyms_raises THEN {}
        ELSE {display_name(lemma.antonyms[j]) : j \in DOMAIN lemma.antonyms}
      all == UNION {of_lemma(syn.lemmas[i]) : i \in DOMAIN syn.lemmas}
  IN  {a \in all : antonym_ok(a)}

\* a faulty variant of top_up: every fallback synonym is appended
RECURSIVE top_up_unchecked(_, _)
top_up_unchecked(synonyms_list, fallback_syns) ==
  IF Len(fallback_syns) = 0 THEN synonyms_list
  ELSE top_up_unchecked(Append(synonyms_list, Head(fallback_syns)), Tail(fallback_syns))

\* the loop that appends fallback synonyms
RECURSIVE top_up(_, _)
top_up(synonyms_list, fallback_syns) ==
  IF Len(fallback_syns) = 0 THEN synonyms_list
  ELSE LET syn == Head(fallback_syns)
           lowered == {lower(synonyms_list[i]) : i \in DOMAIN synonyms_list}
       IN  top_up(IF syn \notin lowered /\ Len(synonyms_list) < SynonymLimit
                    THEN Append(synonyms_list, syn)
                    ELSE synonyms_list,
                  Tail(fallback_syns))

\* A result of get_synonyms_antonyms is [synonyms, antonyms, path,
\* antonyms_from]: path names the branch that returned and antonyms_from the
\* tier the antonyms come from.
curated_result(word, path) ==
  [synonyms |-> _get_fallback_synonyms_antonyms(word).synonyms,
   antonyms |-> _get_fallback_synonyms_antonyms(word).antonyms,
   path |-> path, antonyms_from |-> "curated"]

\* a faulty variant of wordnet_result: the synonyms are topped up whenever the
\* fallback data is fetched
wordnet_result_always_topped_up(word, found) ==
  LET fb == _get_fallback_synonyms_antonyms(word)
      used == take(found, SynsetLimit)
      synonyms == UNION {synset_synonyms(used[i], word) : i \in DOMAIN used}
      antonyms == UNION {synset_antonyms(used[i]) : i \in DOMAIN used}
      synonyms_list == take(list_of_set(synonyms), SynonymLimit)
      antonyms_list == take(list_of_set(antonyms), AntonymLimit)
  IN  IF Len(synonyms_list) < FewSynonyms \/ Len(antonyms_list) = 0
        THEN [synonyms |-> top_up(synonyms_list, fb.synonyms),
              antonyms |-> IF Len(antonyms_list) = 0
                             THEN take(fb.antonyms, FallbackAntonymLimit)
                             ELSE antonyms_list,
              path |-> "gate",
              antonyms_from |-> IF Len(antonyms_list) = 0 THEN "replaced" ELSE "external"]
        ELSE [synonyms |-> synonyms_list, antonyms |-> antonyms_list,
              path |-> "external", antonyms_from |-> "external"]

\* get_synonyms_antonyms once wordnet.synsets has returned at least one synset
wordnet_result(word, found) ==
  LET fb == _get_fallback_synonyms_antonyms(word)
      used == take(found, SynsetLimit)
      synonyms == UNION {synset_synonyms(used[i], word) : i \in DOMAIN used}
      antonyms == UNION {synset_antonyms(used[i]) : i \in DOMAIN used}
      synonyms_list == take(list_of_set(synonyms), SynonymLimit)
      antonyms_list == take(list_of_set(antonyms), AntonymLimit)
  IN  IF Len(synonyms_list) < FewSynonyms \/ Len(antonyms_list) = 0
        THEN [synonyms |-> IF Len(synonyms_list) < FewSynonyms
                             THEN top_up(synonyms_list, fb.synonyms)
                             ELSE synonyms_list,
              antonyms |-> IF Len(antonyms_list) = 0
                             THEN take(fb.antonyms, FallbackAntonymLimit)
                             ELSE antonyms_list,
              path |-> "gate",
              antonyms_from |-> IF Len(antonyms_list) = 0 THEN "replaced" ELSE "external"]
        ELSE [synonyms |-> synonyms_list, antonyms |-> antonyms_list,
              path |-> "external", antonyms_from |-> "external"]

\* a faulty variant of get_synonyms_antonyms: a word without synsets gets
\* empty lists instead of the fallback data
get_synonyms_antonyms_empty_on_miss(word) ==
  LET answer == synsets(lower(word))
  IN  IF ~nltk_ready THEN curated_result(word, "not_ready")
      ELSE IF answer.raises THEN curated_result(word, "raised")
      ELSE IF Len(answer.synsets) = 0
        THEN [synonyms |-> << >>, antonyms |-> << >>, path |-> "no_synsets",
              antonyms_from |-> "curated"]
      ELSE wordnet_result(word, answer.synsets)

get_synonyms_antonyms(word) ==
  LET answer == synsets(lower(word))
  IN  IF ~nltk_ready THEN curated_result(word, "not_ready")
      ELSE IF answer.raises THEN curated_result(word, "raised")
      ELSE IF Len(answer.synsets) = 0 THEN curated_result(word, "no_synsets")
      ELSE wordnet_result(word, answer.synsets)

ShortDefinition == 20

\* the loop over synsets[1:3]: the first definition longer than best_def
RECURSIVE better_definition(_, _)
better_definition(best_def, candidates) ==
  IF Len(candidates) = 0 THEN best_def
  ELSE IF Len(Head(candidates).definition) > Len(best_def) THEN Head(candidates).definition
  ELSE better_definition(best_def, Tail(candidates))

\* a faulty variant of get_definition: an empty gloss is returned as it is
get_definition_unchecked(word) ==
  LET answer == synsets(lower(word))
  IN  IF ~nltk_ready THEN _get_fallback_definition(word)
      ELSE IF answer.raises THEN _get_fallback_definition(word)
      ELSE IF Len(answer.synsets) = 0 THEN _get_fallback_definition(word)
      ELSE
        LET first == answer.synsets[1].definition
        IN  capitalize(IF Len(first) < ShortDefinition /\ Len(answer.synsets) > 1
                         THEN better_definition(first, slice(answer.synsets, 1, 3))
                         ELSE first)

get_definition(word) ==
  LET answer == synsets(lower(word))
  IN  IF ~nltk_ready THEN _get_fallback_definition(word)
      ELSE IF answer.raises THEN _get_fallback_definition(word)
      ELSE IF Len(answer.synsets) = 0 THEN _get_fallback_definition(word)
      ELSE
        LET first == answer.synsets[1].definition
            best_def == IF Len(first) < ShortDefinition /\ Len(answer.synsets) > 1
                          THEN better_definition(first, slice(answer.synsets, 1, 3))
                          ELSE first
        IN  IF Len(best_def) > 0 THEN capitalize(best_def)
            ELSE _get_fallback_definition(word)

ExampleSynsetLimit == 3

TerminalPunctuation == {".", "!", "?"}

\* what is done to a stored example before it is returned
finish_example(example) ==
  LET capital == IF Len(example) > 1 THEN <<upper_char(example[1])>> \o Tail(example)
                 ELSE upper(example)
  IN  IF capital[Len(capital)] \in TerminalPunctuation THEN capital
      ELSE capital \o <<".">>

\* the loop over synsets[:3]: << >> when no synset gives an example
RECURSIVE wordnet_example(_)
wordnet_example(candidates) ==
  IF Len(candidates) = 0 THEN << >>
  ELSE LET syn == Head(candidates)
           example == IF Len(syn.examples) > 0 THEN strip(syn.examples[1]) ELSE << >>
       IN  IF Len(example) > 0 THEN finish_example(example)
           ELSE wordnet_example(Tail(candidates))

generate_example_sentence(word) ==
  LET answer == synsets(lower(word))
      found == IF nltk_ready /\ ~answer.raises
                 THEN wordnet_example(take(answer.synsets, ExampleSynsetLimit))
                 ELSE << >>
  IN  IF Len(found) > 0 THEN found ELSE _get_fallback_example(word)

\* NLPProcessor.analyze_word: the four resolvers in the order they are called
analyze_word(word) ==
  LET clean_word == lower(strip(word))
      syn_ant == get_synonyms_antonyms(clean_word)
  IN  [word |-> clean_word,
       partOfSpeech |-> get_part_of_speech(clean_word),
       definition |-> get_definition(clean_word),
       synonyms |-> syn_ant.synonyms,
       antonyms |-> syn_ant.antonyms,
       exampleSentence |-> generate_example_sentence(clean_word),
       success |-> TRUE,
       nltk_available |-> nltk_ready,
       nltk_imported |-> NLTK_AVAILABLE,
       path |-> syn_ant.path,
       antonyms_from |-> syn_ant.antonyms_from]

Resolvers ==
  <<"get_part_of_speech", "get_synonyms_antonyms", "get_definition",
    "generate_example_sentence">>

\* ------------------------------------------------------------------------
\* Flask variant: resolvers.  None of them catches an exception of the
\* external source: each result is [raised, value].
\* ------------------------------------------------------------------------

Raised == [raised |-> TRUE, value |-> << >>]

Returned(v) == [raised |-> FALSE, value |-> v]

app_get_part_of_speech(word) ==
  IF tagger.tokenize = "raise" THEN Raised
  ELSE IF tagger.tokenize = "empty" THEN Returned(<<"U","n","k","n","o","w","n">>)
  ELSE IF tagger.tag_raises THEN Raised
  ELSE Returned(map_pos(tagger.code))

app_synonym_ok(synonym, word) == lower(synonym) # lower(word) /\ Len(synonym) > 1

\* every antonym of every lemma of the synsets, longer than one character
app_antonyms_of(syns) ==
  {a \in UNION {UNION {{display_name(syns[i].lemmas[j].antonyms[k]) :
                          k \in DOMAIN syns[i].lemmas[j].antonyms} :
                       j \in DOMAIN syns[i].lemmas} :
                i \in DOMAIN syns} : Len(a) > 1}

\* whether lemma.antonyms() raises for some lemma of the synsets
app_antonyms_raise(syns) ==
  \E i \in DOMAIN syns : \E j \in DOMAIN syns[i].lemmas : syns[i].lemmas[j].antonyms_raises

AppLimit == 8

get_common_antonyms(word) ==
  IF has_key(common_antonyms, word) THEN row_of(common_antonyms, word)[2] ELSE << >>

\* the value is [synonyms, antonyms, antonyms_from]
app_get_synonyms_antonyms(word) ==
  LET answer == synsets(lower(word))
      syns == answer.synsets
      own == UNION {{display_name(syns[i].lemmas[j].name) : j \in DOMAIN syns[i].lemmas} :
                    i \in DOMAIN syns}
      similar == UNION {UNION {{display_name(syns[i].similar_tos[j][k]) :
                                  k \in DOMAIN syns[i].similar_tos[j]} :
                               j \in DOMAIN syns[i].similar_tos} :
                        i \in DOMAIN syns}
      synonyms == {s \in own \cup similar : app_synonym_ok(s, word)}
      direct == app_antonyms_of(syns)
      \* the second pass, over the synsets of every synonym
      related(s) == synsets(replace_char(s, " ", "_"))
      second_raises == \E s \in synonyms :
                         related(s).raises \/ app_antonyms_raise(related(s).synsets)
      second == UNION {app_antonyms_of(related(s).synsets) : s \in synonyms}
      antonyms == IF direct = {} THEN second ELSE direct
      synonyms_list == take(list_of_set(synonyms), AppLimit)
      antonyms_list == take(list_of_set(antonyms), AppLimit)
  IN  IF answer.raises THEN Raised
      ELSE IF \E i \in DOMAIN syns : syns[i].similar_raises THEN Raised
      ELSE IF app_antonyms_raise(syns) THEN Raised
      ELSE IF direct = {} /\ second_raises THEN Raised
      ELSE Returned([synonyms |-> synonyms_list,
                     antonyms |-> IF Len(antonyms_list) = 0
                                    THEN get_common_antonyms(lower(word))
                                    ELSE antonyms_list,
                     antonyms_from |-> IF Len(antonyms_list) = 0 THEN "common"
                                       ELSE "external"])

app_get_definition(word) ==
  LET answer == synsets(lower(word))
  IN  IF answer.raises THEN Raised
      ELSE IF Len(answer.synsets) > 0 THEN Returned(answer.synsets[1].definition)
      ELSE Returned(<<"N","o"," ","d","e","f","i","n","i","t","i","o","n"," ","a","v","a","i","l","a","b","l","e">>)

\* pos.split('(')[0]
RECURSIVE before_paren(_)
before_paren(s) ==
  IF Len(s) = 0 \/ s[1] = "(" THEN << >> ELSE <<s[1]>> \o before_paren(Tail(s))

\* templates[base_pos] with the word interpolated; << >> when base_pos is no key
templates(base_pos, word) ==
  IF base_pos = <<"N","o","u","n">> THEN
    <<<<"T","h","e"," ">> \o word \o <<" ","w","a","s"," ","b","e","a","u","t","i","f","u","l",".">>,
      <<"I"," ","s","a","w"," ","a"," ">> \o word \o <<" ","i","n"," ","t","h","e"," ","g","a","r","d","e","n",".">>,
      <<"E","v","e","r","y","o","n","e"," ","a","d","m","i","r","e","d"," ","t","h","e"," ">> \o word \o <<".">> >>
  ELSE IF base_pos = <<"V","e","r","b">> THEN
    <<<<"T","h","e","y"," ">> \o word \o <<" ","e","v","e","r","y"," ","m","o","r","n","i","n","g",".">>,
      <<"S","h","e"," ","l","i","k","e","s"," ","t","o"," ">> \o word \o <<" ","d","u","r","i","n","g"," ","w","e","e","k","e","n","d","s",".">>,
      <<"W","e"," ","s","h","o","u","l","d"," ">> \o word \o <<" ","m","o","r","e"," ","o","f","t","e","n",".">> >>
  ELSE IF base_pos = <<"A","d","j","e","c","t","i","v","e">> THEN
    <<<<"T","h","e"," ","w","e","a","t","h","e","r"," ","i","s"," ","v","e","r","y"," ">> \o word \o <<" ","t","o","d","a","y",".">>,
      <<"S","h","e"," ","l","o","o","k","s"," ">> \o word \o <<" ","i","n"," ","t","h","a","t"," ","d","r","e","s","s",".">>,
      <<"T","h","i","s"," ","b","o","o","k"," ","i","s"," ","q","u","i","t","e"," ">> \o word \o <<".">> >>
  ELSE IF base_pos = <<"A","d","v","e","r","b">> THEN
    <<<<"H","e"," ","s","p","o","k","e"," ">> \o word \o <<" ","t","o"," ","t","h","e"," ","a","u","d","i","e","n","c","e",".">>,
      <<"S","h","e"," ","w","o","r","k","e","d"," ">> \o word \o <<" ","o","n"," ","t","h","e"," ","p","r","o","j","e","c","t",".">>,
      <<"T","h","e","y"," ","h","a","n","d","l","e","d"," ","t","h","e"," ","s","i","t","u","a","t","i","o","n"," ">> \o word \o <<".">> >>
  ELSE << >>

\* the first synset that has examples: its first example
RECURSIVE app_wordnet_example(_)
app_wordnet_example(syns) ==
  IF Len(syns) = 0 THEN [found |-> FALSE, example |-> << >>]
  ELSE IF Len(Head(syns).examples) > 0 THEN [found |-> TRUE, example |-> Head(syns).examples[1]]
  ELSE app_wordnet_example(Tail(syns))

TemplateCount == 3

\* whether generate_example_sentence(word) reaches random.choice
app_draws(word) ==
  LET answer == synsets(lower(word))
      pos == app_get_part_of_speech(word)
  IN  /\ ~answer.raises
      /\ ~app_wordnet_example(answer.synsets).found
      /\ ~pos.raised
      /\ Len(templates(strip(before_paren(pos.value)), word)) > 0

\* choice is the index random.choice draws
app_generate_example_sentence(word, choice) ==
  LET answer == synsets(lower(word))
      stored == app_wordnet_example(answer.synsets)
      pos == app_get_part_of_speech(word)
      base_pos == strip(before_paren(pos.value))
  IN  IF answer.raises THEN Raised
      ELSE IF stored.found THEN Returned(stored.example)
      ELSE IF pos.raised THEN Raised
      ELSE IF Len(templates(base_pos, word)) > 0 THEN Returned(templates(base_pos, word)[choice])
      ELSE Returned(<<"T","h","e"," ","w","o","r","d"," ","'">> \o word \o <<"'"," ","i","s"," ","u","s","e","d"," ","i","n"," ","m","a","n","y"," ","c","o","n","t","e","x","t","s",".">>)

\* ------------------------------------------------------------------------
\* Requests and responses
\*
\* A request is [method, path, body, word_kind, word]: body tells what the
\* request body is ("absent", "null", "invalid_json", "non_object" or
\* "object") and word_kind what the object's 'word' entry is ("absent",
\* "null", "number" or "string").
\* ------------------------------------------------------------------------

NoAnalysis ==
  [word |-> << >>, partOfSpeech |-> << >>, definition |-> << >>,
   synonyms |-> << >>, antonyms |-> << >>, exampleSentence |-> << >>,
   success |-> FALSE, nltk_available |-> FALSE, nltk_imported |-> FALSE,
   path |-> "none", antonyms_from |-> "none"]

NoHealth == [status |-> "", has_nltk_ready |-> FALSE, nltk_ready |-> FALSE,
             nltk_available |-> FALSE]

\* success is "true", "false" or "absent" (the body has no such key)
Reply(status, kind, error, success, body, health) ==
  [status |-> status, kind |-> kind, error |-> error, success |-> success,
   body |-> body, health |-> health]

ErrorReply(status, error, success) ==
  Reply(status, "error", error, success, NoAnalysis, NoHealth)

NoResponse == Reply(0, "none", "", "absent", NoAnalysis, NoHealth)

Handled(reply, resolvers) == [response |-> reply, calls |-> resolvers]

\* a faulty variant of validation_error: a word without letters is let through
validation_error_letters_unchecked(raw) ==
  LET word == strip(raw)
  IN  IF Len(word) = 0 THEN "Word is required"
      ELSE IF Len(split(word)) > 1 THEN "Please enter a single word"
      ELSE ""

\* a faulty variant of validation_error: the word is cleaned before its
\* tokens are counted
validation_error_cleaned_first(raw) ==
  LET word == strip(raw)
  IN  IF Len(word) = 0 THEN "Word is required"
      ELSE IF Len(re_sub_non_letters(word)) = 0 THEN "Please enter a valid word"
      ELSE IF Len(split(word)) > 1 THEN "Please enter a single word"
      ELSE ""

\* the checks on the word, the same in both handlers: the error message, or ""
validation_error(raw) ==
  LET word == strip(raw)
  IN  IF Len(word) = 0 THEN "Word is required"
      ELSE IF Len(split(word)) > 1 THEN "Please enter a single word"
      ELSE IF Len(re_sub_non_letters(word)) = 0 THEN "Please enter a valid word"
      ELSE ""

\* body.get('word', '') of a request whose body is an object
word_of(event) == IF event.word_kind = "string" THEN event.word ELSE << >>

lambda_analyze(event) ==
  IF event.body = "null" THEN Handled(ErrorReply(500, "Internal server error", "false"), << >>)
  ELSE IF event.body = "invalid_json"
    THEN Handled(ErrorReply(400, "Invalid JSON in request body", "absent"), << >>)
  ELSE IF event.body = "non_object"
    THEN Handled(ErrorReply(500, "Internal server error", "false"), << >>)
  ELSE IF event.body = "object" /\ event.word_kind \in {"null", "number"}
    THEN Handled(ErrorReply(500, "Internal server error", "false"), << >>)
  ELSE
    LET raw == IF event.body = "absent" THEN << >> ELSE word_of(event)
        clean_word == re_sub_non_letters(strip(raw))
    IN  IF validation_error(raw) # ""
          THEN Handled(ErrorReply(400, validation_error(raw), "absent"), << >>)
        ELSE Handled(Reply(200, "analysis", "", "true", analyze_word(clean_word), NoHealth),
                     Resolvers)

lambda_handler(event) ==
  IF event.method = "OPTIONS"
    THEN Handled(Reply(200, "options", "", "absent", NoAnalysis, NoHealth), << >>)
  ELSE IF event.path = "/api/health" /\ event.method = "GET"
    THEN Handled(Reply(200, "health", "", "absent", NoAnalysis,
                       [status |-> "healthy", has_nltk_ready |-> TRUE,
                        nltk_ready |-> nltk_ready, nltk_available |-> NLTK_AVAILABLE]),
                 << >>)
  ELSE IF event.path = "/api/analyze" /\ event.method = "POST" THEN lambda_analyze(event)
  ELSE Handled(ErrorReply(404, "Not found", "false"), << >>)

\* Flask view analyze_word; choice is the index random.choice draws
app_analyze_word(req, choice) ==
  LET failed == ErrorReply(500, "Analysis failed", "false")
      raw == word_of(req)
      clean_word == re_sub_non_letters(strip(raw))
      part_of_speech == app_get_part_of_speech(clean_word)
      syn_ant == app_get_synonyms_antonyms(clean_word)
      definition == app_get_definition(clean_word)
      example_sentence == app_generate_example_sentence(clean_word, choice)
  IN  IF req.body # "object" \/ req.word_kind \in {"null", "number"}
        THEN Handled(failed, << >>)
      ELSE IF validation_error(raw) # ""
        THEN Handled(ErrorReply(400, validation_error(raw), "absent"), << >>)
      ELSE IF part_of_speech.raised THEN Handled(failed, take(Resolvers, 1))
      ELSE IF syn_ant.raised THEN Handled(failed, take(Resolvers, 2))
      ELSE IF definition.raised THEN Handled(failed, take(Resolvers, 3))
      ELSE IF example_sentence.raised THEN Handled(failed, Resolvers)
      ELSE Handled(Reply(200, "analysis", "", "true",
                         [word |-> lower(clean_word),
                          partOfSpeech |-> part_of_speech.value,
                          definition |-> definition.value,
                          synonyms |-> syn_ant.value.synonyms,
                          antonyms |-> syn_ant.value.antonyms,
                          exampleSentence |-> example_sentence.value,
                          success |-> TRUE,
                          nltk_available |-> FALSE, nltk_imported |-> FALSE,
                          path |-> "flask",
                          antonyms_from |-> syn_ant.value.antonyms_from],
                         NoHealth),
                   Resolvers)

\* Flask view health_check
health_check ==
  Handled(Reply(200, "health", "", "absent", NoAnalysis,
                [status |-> "healthy", has_nltk_ready |-> FALSE, nltk_ready |-> FALSE,
                 nltk_available |-> FALSE]),
          << >>)

\* ------------------------------------------------------------------------
\* The answers the external source may give, and the requests sent
\* ------------------------------------------------------------------------

\* lemmas of the generated large synset
NLemmas == 9

\* synsets of the generated long answer
NSynsets == 6

Suffixed(stem, k) == stem \o <<Lowercase[k]>>

LargeSynset ==
  Synset(<<"a"," ","s","y","n","s","e","t"," ","w","i","t","h"," ","m","a","n","y"," ","l","e","m","m","a","s">>, << >>,
         [k \in 1..NLemmas |-> Lemma(Suffixed(<<"s","y","n">>, k), <<Suffixed(<<"a","n","t">>, k)>>)],
         << >>)

\* only the synsets after the third hold an example, only those after the
\* fifth an antonym
LongAnswer ==
  [k \in 1..NSynsets |->
     Synset(Suffixed(<<"s","e","n","s","e"," ">>, k),
            IF k > ExampleSynsetLimit THEN <<<<"a"," ","l","a","t","e"," ","e","x","a","m","p","l","e">> >> ELSE << >>,
            <<Lemma(Suffixed(<<"l","e","m">>, k), IF k > SynsetLimit THEN <<<<"l","a","t","e">> >> ELSE << >>)>>,
            << >>)]

RichAnswer ==
  <<Synset(<<"m","o","r","a","l","l","y"," ","G","O","O","D">>, <<<< >> >>,
           <<Lemma(<<"G","o","o","d">>, <<<<"b","a","d">>, <<"e","v","i","l","_","o","n","e">>, <<"b">> >>),
             Lemma(<<"f","i","n","e","_","d","a","y">>, << >>),
             Lemma(<<"x">>, << >>),
             Lemma(<<"a","1">>, <<<<"b","2">> >>),
             LemmaRaising(<<"n","i","c","e">>)>>,
           <<<<<<"g","r","e","a","t">>, <<"s","w","e","l","l">> >>, <<<<"n","e","a","t">> >>, <<<<"t","h","i","r","d">> >> >>),
    Synset(<<"o","k">>, <<<<"h","e"," ","d","i","d"," ","g","o","o","d">>, <<"s","e","c","o","n","d"," ","e","x","a","m","p","l","e",".">> >>,
           <<Lemma(<<"g","r","e","a","t">>, << >>)>>, << >>),
    Synset(<<"h","a","v","i","n","g"," ","d","e","s","i","r","a","b","l","e"," ","o","r"," ","P","o","s","i","t","i","v","e"," ","q","u","a","l","i","t","i","e","s">>, <<<<"w","h","a","t"," ","a"," ","d","a","y","!">> >>,
           <<Lemma(<<"f","i","n","e">>, <<<<"p","o","o","r">> >>)>>, << >>)>>

\* one synonym, no antonym
FewAnswer ==
  Answer(<<Synset(<<"o","f"," ","h","i","g","h"," ","q","u","a","l","i","t","y">>, <<<<" ","i","s"," ","i","t"," ","a","n","y"," ","g","o","o","d","?"," ">> >>,
                  <<Lemma(<<"G","r","e","a","t">>, << >>)>>, << >>)>>)

\* a short first gloss, a longer second one and a third longer still; the only
\* stored example follows an empty one
GlossAnswer ==
  <<Synset(<<"s","h","o","r","t">>, <<<< >>, <<"a"," ","l","a","t","e","r"," ","u","s","a","g","e">> >>, <<Lemma(<<"b","r","i","e","f">>, <<<<"l","o","n","g">> >>)>>, << >>),
    Synset(<<"a"," ","b","i","t"," ","l","o","n","g","e","r">>, << >>, <<Lemma(<<"t","e","r","s","e">>, << >>)>>, << >>),
    Synset(<<"t","h","e"," ","l","o","n","g","e","s","t"," ","g","l","o","s","s"," ","o","f"," ","t","h","e"," ","t","h","r","e","e">>, << >>, <<Lemma(<<"c","u","r","t">>, << >>)>>, << >>)>>

HeadAnswers ==
  { AnswerRaising,
    Answer(<< >>),
    Answer(GlossAnswer),
    \* an empty gloss, a blank example, the word as its own lemma
    Answer(<<Synset(<< >>, <<<<" "," ">> >>, <<Lemma(<<"g","o","o","d">>, << >>)>>, << >>)>>),
    Answer(RichAnswer),
    Answer(<<LargeSynset>>),
    Answer(LongAnswer),
    FewAnswer,
    \* three synonyms, no antonym
    Answer(<<Synset(<<"x">>, <<<<"q">> >>,
                    <<Lemma(<<"n","i","c","e">>, << >>), Lemma(<<"s","w","e","l","l">>, << >>), Lemma(<<"n","e","a","t">>, << >>)>>,
                    << >>)>>),
    \* two synonyms, an antonym that is the word "good" or "unhappy" itself
    Answer(<<Synset(<<"n","o","t"," ","b","a","d">>, << >>,
                    <<Lemma(<<"n","i","c","e">>, <<<<"g","o","o","d">>, <<"u","n","h","a","p","p","y">> >>), Lemma(<<"f","i","n","e">>, << >>)>>,
                    << >>)>>),
    \* similar_tos() raises
    Answer(<<SynsetRaising(<<"p","l","e","a","s","a","n","t"," ","i","n"," ","a","n"," ","o","r","d","i","n","a","r","y"," ","w","a","y">>, << >>,
                           <<Lemma(<<"n","i","c","e">>, <<<<"n","a","s","t","y">> >>), Lemma(<<"s","w","e","l","l">>, << >>),
                             Lemma(<<"n","e","a","t">>, << >>)>>)>>) }

\* the answers for the related words
RelatedAnswers ==
  { Answer(<< >>),
    Answer(<<Synset(<<"r","e","l","a","t","e","d">>, << >>, <<Lemma(<<"g","r","e","a","t">>, <<<<"a","w","f","u","l">>, <<"t","i","n","y">> >>)>>, << >>)>>),
    AnswerRaising }

Tagged(code) == [tokenize |-> "ok", tag_raises |-> FALSE, code |-> code]

TaggerAnswers ==
  { [tokenize |-> "raise", tag_raises |-> FALSE, code |-> << >>],
    [tokenize |-> "empty", tag_raises |-> FALSE, code |-> << >>],
    [tokenize |-> "ok", tag_raises |-> TRUE, code |-> << >>],
    Tagged(<<"N","N">>), Tagged(<<"J","J">>), Tagged(<<"V","B","G">>), Tagged(<<"R","B">>), Tagged(<<"X","X">>) }

HashSeeds == {0, 1}

RawWords ==
  { << >>, <<" "," ">>, <<"t","w","o"," ","w","o","r","d","s">>, <<"1","2","3">>, <<"1","2"," ","3","4">>, <<"G","o","o","d">>, <<"g","o","o","d">>, <<" ","g","o","o","d","\t">>,
    <<"u","n","h","a","p","p","y">>, <<"u","n">>, <<"u","n","a">>, <<"i","n">>, <<"i","n","s","i","d","e">>, <<"h","a","p","p","y">>, <<"x","y","z">>, <<"r","u","n","n","i","n","g">>,
    <<"q","u","i","c","k","l","y">>, <<"f","l","y">>, <<"u","g","l","y">>, <<"h","a","t","e">>, <<"b","e","a","u","t","i","f","u","l">>, <<"l","o","v","e">>, <<"h","e","l","l","o">>,
    <<"g","o","o","d","b","y","e">>, <<"g","o">>, <<"s","a","d">>, <<"i","t","'","s">>, <<"a","1","b">>, <<"g","r","e","a","t">> }

AnalyzeRequest(body, word_kind, word) ==
  [method |-> "POST", path |-> "/api/analyze", body |-> body, word_kind |-> word_kind,
   word |-> word]

AnalyzeRequests ==
  {AnalyzeRequest("object", "string", w) : w \in RawWords}
  \cup {AnalyzeRequest(b, "absent", << >>) : b \in {"absent", "null", "invalid_json", "non_object", "object"}}
  \cup {AnalyzeRequest("object", k, << >>) : k \in {"null", "number"}}

OtherRequest(method, path) ==
  [method |-> method, path |-> path, body |-> "absent", word_kind |-> "absent", word |-> << >>]

LambdaEvents ==
  AnalyzeRequests
  \cup {OtherRequest("GET", "/api/health"), OtherRequest("OPTIONS", "/api/analyze"),
        OtherRequest("GET", "/api/analyze")}

\* ------------------------------------------------------------------------
\* Construction of the processor
\* ------------------------------------------------------------------------

FeaturesNeeded == 2

\* NLPProcessor._initialize_nltk: the value nltk_ready is left with.  The
\* tokenization feature is set whether word_tokenize works or raises.
_initialize_nltk(available, setup_raises, tokenize_imports, tag_works, wordnet_works) ==
  IF ~available THEN FALSE
  ELSE IF setup_raises THEN FALSE
  ELSE LET tokenization == tokenize_imports
           pos_tagging == tokenization /\ tag_works
           working_features == (IF tokenization THEN 1 ELSE 0) + (IF pos_tagging THEN 1 ELSE 0)
                               + (IF wordnet_works THEN 1 ELSE 0)
       IN  working_features >= FeaturesNeeded

\* an external source: wordnet's answers and the tagger's
Source(head, rel, tag) == [wordnet |-> [head |-> head, rel |-> rel], tagger |-> tag]

\* the sources the processor may run against: every wordnet answer, every
\* tagger answer, and every answer for the related words
Sources ==
  {Source(h, Answer(<< >>), Tagged(<<"N","N">>)) : h \in HeadAnswers}
  \cup {Source(Answer(<< >>), Answer(<< >>), t) : t \in TaggerAnswers}
  \cup {Source(h, r, Tagged(<<"J","J">>)) : h \in {Answer(RichAnswer), FewAnswer}, r \in RelatedAnswers}

\* a processor that is not ready never calls the source
UnusedSources ==
  {Source(h, Answer(<< >>), Tagged(<<"N","N">>)) : h \in {AnswerRaising, Answer(<< >>), Answer(RichAnswer)}}

\* requests served at the same time by the one processor
NThreads == 2

Threads == 1..NThreads

\* A request in progress: where its handler stands (pc), the event, and the
\* local variables of lambda_handler, analyze_word and get_synonyms_antonyms;
\* pending is what the top-up loop has yet to iterate over, reply the
\* response once returned, and overlapped tells that another request was in
\* progress during one of its steps.
IdleThread ==
  [pc |-> "idle", event |-> NoRequest, word |-> << >>, partOfSpeech |-> << >>,
   synonyms_list |-> << >>, antonyms_list |-> << >>, pending |-> << >>,
   path |-> "none", antonyms_from |-> "none", definition |-> << >>,
   exampleSentence |-> << >>, reply |-> NoResponse, overlapped |-> FALSE]

Init ==
  /\ variant \in {"lambda", "flask"}
  /\ \E available, setup_raises, tokenize_imports, tag_works, wordnet_works \in BOOLEAN :
       /\ NLTK_AVAILABLE = (variant = "lambda" /\ available)
       /\ nltk_ready = (variant = "lambda" /\
                        _initialize_nltk(available, setup_raises, tokenize_imports,
                                         tag_works, wordnet_works))
  /\ \E src \in (IF variant = "lambda" /\ ~nltk_ready THEN UnusedSources ELSE Sources) :
       /\ wordnet = src.wordnet
       /\ tagger = src.tagger
  /\ hashseed \in HashSeeds
  /\ request = NoRequest
  /\ response = NoResponse
  /\ calls = << >>
  /\ prev = NoResponse
  /\ threads = [t \in Threads |-> IdleThread]

\* ------------------------------------------------------------------------
\* Operations
\* ------------------------------------------------------------------------

\* a faulty variant of Serve: an exception of the external source marks the
\* processor as not ready
Serve_losing_readiness(req, handled) ==
  /\ request = NoRequest \/ request = req
  /\ request' = req
  /\ response' = handled.response
  /\ calls' = handled.calls
  /\ prev' = IF req = request THEN response ELSE NoResponse
  /\ nltk_ready' = (nltk_ready /\ handled.response.body.path # "raised")
  /\ UNCHANGED <<variant, NLTK_AVAILABLE, wordnet, tagger, hashseed, threads>>

\* An exchange: the request is handled and its answer recorded.  The process
\* keeps nothing of an exchange once it has ended (Complete), so a new
\* request starts from the idle state; a request that repeats the one just
\* answered is handled while that answer is still on record, as prev.
Serve(req, handled) ==
  /\ request = NoRequest \/ request = req
  /\ request' = req
  /\ response' = handled.response
  /\ calls' = handled.calls
  /\ prev' = IF req = request THEN response ELSE NoResponse
  /\ UNCHANGED <<variant, NLTK_AVAILABLE, nltk_ready, wordnet, tagger, hashseed, threads>>

LambdaRequest(event) ==
  /\ variant = "lambda"
  /\ Serve(event, lambda_handler(event))

\* random.choice is called, and choice drawn, only on the template path
FlaskAnalyze(req, choice) ==
  /\ variant = "flask"
  /\ request = NoRequest \/ request = req
  /\ choice = 1 \/ app_draws(re_sub_non_letters(strip(word_of(req))))
  /\ Serve(req, app_analyze_word(req, choice))

FlaskHealth ==
  /\ variant = "flask"
  /\ Serve(OtherRequest("GET", "/api/health"), health_check)

\* the handler has returned: nothing of the exchange is kept
Complete ==
  /\ request # NoRequest
  /\ request' = NoRequest
  /\ response' = NoResponse
  /\ calls' = << >>
  /\ prev' = NoResponse
  /\ UNCHANGED <<variant, NLTK_AVAILABLE, nltk_ready, wordnet, tagger, hashseed, threads>>

Next ==
  \/ \E event \in LambdaEvents : LambdaRequest(event)
  \/ \E req \in AnalyzeRequests : \E choice \in 1..TemplateCount : FlaskAnalyze(req, choice)
  \/ FlaskHealth
  \/ Complete

Spec == Init /\ [][Next]_vars


\* ------------------------------------------------------------------------
\* Several requests served at once by the one processor (Lambda variant):
\* each handler advances one statement group at a time, and the steps of
\* different requests interleave freely.  The static tables are literals
\* evaluated anew by each call of a fallback method, the lists a call builds
\* are its own, and nltk_ready is the only attribute of the processor.
\* ------------------------------------------------------------------------

\* the lists get_synonyms_antonyms has built when it reaches its quality gate
collected_lists(word, found) ==
  LET used == take(found, SynsetLimit)
      synonyms == UNION {synset_synonyms(used[i], word) : i \in DOMAIN used}
      antonyms == UNION {synset_antonyms(used[i]) : i \in DOMAIN used}
  IN  [synonyms_list |-> take(list_of_set(synonyms), SynonymLimit),
       antonyms_list |-> take(list_of_set(antonyms), AntonymLimit)]

ConcurrentWords == {<<"G","o","o","d">>, <<"u","n","h","a","p","p","y">>, <<"1","2","3">>}

ConcurrentEvents == {AnalyzeRequest("object", "string", w) : w \in ConcurrentWords}

ConcurrentSources ==
  {Source(h, Answer(<< >>), Tagged(<<"J","J">>)) :
     h \in {AnswerRaising, FewAnswer, Answer(RichAnswer)}}

Busy(t) == threads[t].pc \notin {"idle", "done"}

\* the handler of request t moves on, with r as its new local state
Step(t, r) ==
  /\ threads' = [threads EXCEPT
                   ![t] = [r EXCEPT !.overlapped = @ \/ \E u \in Threads \ {t} : Busy(u)]]
  /\ UNCHANGED <<variant, NLTK_AVAILABLE, nltk_ready, wordnet, tagger, hashseed,
                 request, response, calls, prev>>

\* lambda_handler up to the call of analyze_word, and the first statement of
\* analyze_word
Receive(t, event) ==
  /\ variant = "lambda"
  /\ threads[t].pc = "idle"
  /\ LET raw == word_of(event)
     IN  IF validation_error(raw) # ""
           THEN Step(t, [threads[t] EXCEPT
                           !.pc = "done", !.event = event,
                           !.reply = ErrorReply(400, validation_error(raw), "absent")])
           ELSE Step(t, [threads[t] EXCEPT
                           !.pc = "pos", !.event = event,
                           !.word = lower(strip(re_sub_non_letters(strip(raw))))])

\* part_of_speech = self.get_part_of_speech(clean_word)
ResolvePos(t) ==
  /\ threads[t].pc = "pos"
  /\ Step(t, [threads[t] EXCEPT
                !.pc = "syn_ant", !.partOfSpeech = get_part_of_speech(threads[t].word)])

\* get_synonyms_antonyms up to its quality gate
Collect(t) ==
  /\ threads[t].pc = "syn_ant"
  /\ LET word == threads[t].word
         answer == synsets(lower(word))
         curated(path) ==
           [threads[t] EXCEPT
              !.pc = "definition",
              !.synonyms_list = curated_result(word, path).synonyms,
              !.antonyms_list = curated_result(word, path).antonyms,
              !.path = path, !.antonyms_from = "curated"]
         lists == collected_lists(word, answer.synsets)
     IN  IF ~nltk_ready THEN Step(t, curated("not_ready"))
         ELSE IF answer.raises THEN Step(t, curated("raised"))
         ELSE IF Len(answer.synsets) = 0 THEN Step(t, curated("no_synsets"))
         ELSE IF Len(lists.synonyms_list) < FewSynonyms \/ Len(lists.antonyms_list) = 0
           THEN Step(t, [threads[t] EXCEPT
                           !.pc = "gate", !.path = "gate", !.antonyms_from = "external",
                           !.synonyms_list = lists.synonyms_list,
                           !.antonyms_list = lists.antonyms_list])
         ELSE Step(t, [threads[t] EXCEPT
                         !.pc = "definition", !.path = "external",
                         !.antonyms_from = "external",
                         !.synonyms_list = lists.synonyms_list,
                         !.antonyms_list = lists.antonyms_list])

\* the fallback data is fetched and the missing antonyms replaced
Gate(t) ==
  /\ threads[t].pc = "gate"
  /\ LET fb == _get_fallback_synonyms_antonyms(threads[t].word)
         none == Len(threads[t].antonyms_list) = 0
         few == Len(threads[t].synonyms_list) < FewSynonyms
     IN  Step(t, [threads[t] EXCEPT
                    !.pc = IF few THEN "top_up" ELSE "definition",
                    !.antonyms_list = IF none THEN take(fb.antonyms, FallbackAntonymLimit) ELSE @,
                    !.antonyms_from = IF none THEN "replaced" ELSE @,
                    !.pending = IF few THEN fb.synonyms ELSE << >>])

\* a faulty variant of TopUp: the list appended to is one list shared by the
\* requests that are topping up
TopUp_on_shared_list(t) ==
  /\ threads[t].pc = "top_up"
  /\ IF Len(threads[t].pending) = 0
       THEN Step(t, [threads[t] EXCEPT !.pc = "definition"])
       ELSE LET syn == Head(threads[t].pending)
                mine == threads[t].synonyms_list
                appends == /\ syn \notin {lower(mine[i]) : i \in DOMAIN mine}
                           /\ Len(mine) < SynonymLimit
            IN  /\ threads' =
                     [u \in Threads |->
                        IF u = t
                          THEN [threads[t] EXCEPT
                                  !.pending = Tail(@),
                                  !.synonyms_list = IF appends THEN Append(@, syn) ELSE @]
                        ELSE IF threads[u].pc = "top_up" /\ appends
                          THEN [threads[u] EXCEPT !.synonyms_list = Append(@, syn)]
                        ELSE threads[u]]
                /\ UNCHANGED <<variant, NLTK_AVAILABLE, nltk_ready, wordnet, tagger,
                               hashseed, request, response, calls, prev>>

\* one iteration of the loop over fallback_syns, or its end
TopUp(t) ==
  /\ threads[t].pc = "top_up"
  /\ IF Len(threads[t].pending) = 0
       THEN Step(t, [threads[t] EXCEPT !.pc = "definition"])
       ELSE LET syn == Head(threads[t].pending)
                mine == threads[t].synonyms_list
                appends == /\ syn \notin {lower(mine[i]) : i \in DOMAIN mine}
                           /\ Len(mine) < SynonymLimit
            IN  Step(t, [threads[t] EXCEPT
                           !.pending = Tail(@),
                           !.synonyms_list = IF appends THEN Append(@, syn) ELSE @])

\* definition = self.get_definition(clean_word)
Define(t) ==
  /\ threads[t].pc = "definition"
  /\ Step(t, [threads[t] EXCEPT
                !.pc = "example", !.definition = get_definition(threads[t].word)])

\* example_sentence = self.generate_example_sentence(clean_word)
Exemplify(t) ==
  /\ threads[t].pc = "example"
  /\ Step(t, [threads[t] EXCEPT
                !.pc = "respond",
                !.exampleSentence = generate_example_sentence(threads[t].word)])

\* analyze_word returns its record and lambda_handler the response
Respond(t) ==
  /\ threads[t].pc = "respond"
  /\ Step(t, [threads[t] EXCEPT
                !.pc = "done",
                !.reply = Reply(200, "analysis", "", "true",
                                [word |-> threads[t].word,
                                 partOfSpeech |-> threads[t].partOfSpeech,
                                 definition |-> threads[t].definition,
                                 synonyms |-> threads[t].synonyms_list,
                                 antonyms |-> threads[t].antonyms_list,
                                 exampleSentence |-> threads[t].exampleSentence,
                                 success |-> TRUE,
                                 nltk_available |-> nltk_ready,
                                 nltk_imported |-> NLTK_AVAILABLE,
                                 path |-> threads[t].path,
                                 antonyms_from |-> threads[t].antonyms_from],
                                NoHealth)])

InitConcurrent ==
  /\ variant = "lambda"
  /\ \E available, setup_raises, tokenize_imports, tag_works, wordnet_works \in BOOLEAN :
       /\ NLTK_AVAILABLE = available
       /\ nltk_ready = _initialize_nltk(available, setup_raises, tokenize_imports,
                                        tag_works, wordnet_works)
  /\ \E src \in (IF nltk_ready THEN ConcurrentSources
                  ELSE {Source(Answer(<< >>), Answer(<< >>), Tagged(<<"J","J">>))}) :
       /\ wordnet = src.wordnet
       /\ tagger = src.tagger
  /\ hashseed \in HashSeeds
  /\ request = NoRequest
  /\ response = NoResponse
  /\ calls = << >>
  /\ prev = NoResponse
  /\ threads = [t \in Threads |-> IdleThread]

NextConcurrent ==
  \E t \in Threads :
    \/ \E event \in ConcurrentEvents : Receive(t, event)
    \/ ResolvePos(t)
    \/ Collect(t)
    \/ Gate(t)
    \/ TopUp(t)
    \/ Define(t)
    \/ Exemplify(t)
    \/ Respond(t)

SpecConcurrent == InitConcurrent /\ [][NextConcurrent]_vars

\* ------------------------------------------------------------------------
\* Properties
\* ------------------------------------------------------------------------

\* the request on record asks for an analysis
AnalyzeRequested ==
  request # NoRequest /\ request.method = "POST" /\ request.path = "/api/analyze"

\* ... and its body is an object whose 'word' is a string
WordRequest ==
  AnalyzeRequested /\ request.body = "object" /\ request.word_kind = "string"

\* the answer on record is a word analysis
Analysed == response.kind = "analysis"

IsBlank(raw) == \A i \in DOMAIN raw : raw[i] \in Whitespace

MultiToken(raw) ==
  \E i, j, k \in DOMAIN raw :
    i < j /\ j < k /\ raw[i] \notin Whitespace /\ raw[j] \in Whitespace /\ raw[k] \notin Whitespace

NoLetter(raw) == \A i \in DOMAIN raw : raw[i] \notin Letters

\* the request carries one word with a letter in it
UsableWord ==
  WordRequest /\ ~IsBlank(request.word) /\ ~MultiToken(request.word) /\ ~NoLetter(request.word)

\* the text s contains the text sub
contains(s, sub) ==
  \E i \in 0..(Len(s) - Len(sub)) : SubSeq(s, i + 1, i + Len(sub)) = sub

NoDuplicates(l) == \A i, j \in DOMAIN l : i # j => l[i] # l[j]

\* the external source holds no synset for the word
ZeroSenses(word) == ~synsets(word).raises /\ Len(synsets(word).synsets) = 0

\* the external source holds no example for the word
NoStoredExample(word) ==
  synsets(word).raises
  \/ \A i \in DOMAIN synsets(word).synsets : Len(synsets(word).synsets[i].examples) = 0

\* the variant has an example table and the word is in it
CuratedExample(word) == variant = "lambda" /\ has_key(examples, word)

AbsentFromTables(word) ==
  ~has_key(word_mappings, word) /\ ~has_key(definitions, word) /\ ~has_key(examples, word)

\* C1: in the Lambda variant, whatever the readiness flag and whatever the
\* external source answers (synsets, none, or an exception), the part of
\* speech, the definition and the example sentence returned for a normalized
\* word are non-empty strings.
C1_FacetsNeverEmpty ==
  (variant = "lambda" /\ Analysed) =>
    /\ Len(response.body.partOfSpeech) > 0
    /\ Len(response.body.definition) > 0
    /\ Len(response.body.exampleSentence) > 0

\* a ready processor has analysed a word whose first synset has an empty gloss
C1_Witness ==
  /\ variant = "lambda" /\ Analysed /\ nltk_ready
  /\ ~synsets(response.body.word).raises
  /\ Len(synsets(response.body.word).synsets) > 0
  /\ Len(synsets(response.body.word).synsets[1].definition) = 0

\* C2: on every path of get_synonyms_antonyms, neither the synonyms nor the
\* antonyms returned contain the word itself (compared case-insensitively)
\* or an entry of length 0 or 1.
C2_NoSelfNoShortEntry ==
  (variant = "lambda" /\ Analysed) =>
    \A e \in Range(response.body.synonyms) \cup Range(response.body.antonyms) :
      lower(e) # lower(response.body.word) /\ Len(e) > 1

\* C3: an empty or blank word, an input of several tokens, and an input
\* without any letter are each rejected with a validation error, and no
\* facet resolver is invoked.
C3_InvalidWordRejected ==
  (WordRequest /\ (IsBlank(request.word) \/ MultiToken(request.word) \/ NoLetter(request.word))) =>
    /\ response.status = 400
    /\ response.kind = "error"
    /\ calls = << >>

\* the input "123" has been rejected
C3_Witness ==
  WordRequest /\ request.word = <<"1","2","3">> /\ response.status = 400 /\ calls = << >>

\* C4: the checks run in the order empty, several tokens, no letter left, and
\* the token check is made on the input before it is stripped of non-letters:
\* an input failing several checks reports the earliest.
C4_EarliestCheckReported ==
  WordRequest =>
    /\ IsBlank(request.word) => response.error = "Word is required"
    /\ (~IsBlank(request.word) /\ MultiToken(request.word)) =>
         response.error = "Please enter a single word"
    /\ (~IsBlank(request.word) /\ ~MultiToken(request.word) /\ NoLetter(request.word)) =>
         response.error = "Please enter a valid word"

\* "12 34", which has several tokens and no letter, is rejected as not a single word
C4_Witness ==
  WordRequest /\ request.word = <<"1","2"," ","3","4">> /\ response.error = "Please enter a single word"

C6_GoodOnCuratedTier ==
  (variant = "lambda" /\ ~nltk_ready /\ WordRequest /\ request.word = <<"G","o","o","d">>) =>
    /\ response.status = 200
    /\ response.success = "true"
    /\ response.body.success
    /\ response.body.word = <<"g","o","o","d">>
    /\ response.body.partOfSpeech = <<"A","d","j","e","c","t","i","v","e">>
    /\ contains(response.body.definition, <<"s","a","t","i","s","f","a","c","t","o","r","y">>)
    /\ <<"b","a","d">> \in Range(response.body.antonyms)
    /\ Range(response.body.synonyms) \cap {<<"g","r","e","a","t">>, <<"e","x","c","e","l","l","e","n","t">>, <<"f","i","n","e">>} # {}

\* "Good" has been analysed by a processor that is not ready
C6_Witness ==
  variant = "lambda" /\ ~nltk_ready /\ WordRequest /\ request.word = <<"G","o","o","d">> /\ Analysed

\* C7: in the curated tier a word of the table gets its table entry whatever
\* its prefix; another word starting with "un" gets the synonyms "re"+base and
\* base and itself as antonym; another starting with "in" gets base as synonym
\* and itself as antonym; any other word gets similar, alike / different,
\* opposite.
C7_CuratedTierRules ==
  (variant = "lambda" /\ Analysed /\ response.body.path \in {"not_ready", "no_synsets", "raised"}) =>
    LET w == response.body.word
        base == SubSeq(w, 3, Len(w))
        syn == Range(response.body.synonyms)
        ant == Range(response.body.antonyms)
    IN  IF has_key(word_mappings, w)
          THEN /\ response.body.synonyms = row_of(word_mappings, w)[2]
               /\ response.body.antonyms = row_of(word_mappings, w)[3]
        ELSE IF startswith(w, <<"u","n">>) THEN syn = {<<"r","e">> \o base, base} /\ ant = {w}
        ELSE IF startswith(w, <<"i","n">>) THEN syn = {base} /\ ant = {w}
        ELSE syn = {<<"s","i","m","i","l","a","r">>, <<"a","l","i","k","e">>} /\ ant = {<<"d","i","f","f","e","r","e","n","t">>, <<"o","p","p","o","s","i","t","e">>}

\* "unhappy" got rehappy, happy / unhappy from a processor that is not ready
C7_Witness ==
  /\ variant = "lambda" /\ Analysed /\ response.body.path = "not_ready"
  /\ response.body.word = <<"u","n","h","a","p","p","y">>
  /\ response.body.synonyms = <<<<"r","e","h","a","p","p","y">>, <<"h","a","p","p","y">> >>
  /\ response.body.antonyms = <<<<"u","n","h","a","p","p","y">> >>

\* C8: a word without synsets in the external source and absent from the
\* three curated tables is still analysed completely, ready or not: success,
\* a non-empty part of speech, the synthesized definition, a non-empty
\* example, and the synonyms and antonyms of the curated tier's pattern or
\* generic rule.
C8_UnknownWordComplete ==
  LET w == lower(re_sub_non_letters(request.word))
  IN  (variant = "lambda" /\ UsableWord /\ ZeroSenses(w) /\ AbsentFromTables(w)) =>
        /\ response.status = 200
        /\ response.success = "true"
        /\ response.body.success
        /\ response.body.word = w
        /\ Len(response.body.partOfSpeech) > 0
        /\ response.body.definition = <<"A"," ","c","o","m","m","o","n"," ","E","n","g","l","i","s","h"," ","w","o","r","d"," ","m","e","a","n","i","n","g"," ","\"">> \o w \o <<"\"">>
        /\ Len(response.body.exampleSentence) > 0
        /\ _get_fallback_synonyms_antonyms(w).rule # "table"
        /\ response.body.synonyms = _get_fallback_synonyms_antonyms(w).synonyms
        /\ response.body.antonyms = _get_fallback_synonyms_antonyms(w).antonyms
        /\ Len(response.body.synonyms) > 0
        /\ Len(response.body.antonyms) > 0

\* a ready processor has analysed a word unknown to the source and to the tables
C8_Witness ==
  /\ variant = "lambda" /\ nltk_ready /\ UsableWord /\ Analysed
  /\ ZeroSenses(response.body.word)
  /\ AbsentFromTables(response.body.word)

\* C9: at most 8 synonyms and at most 8 antonyms are returned, at most 6
\* antonyms when they come from the Lambda variant's external tier and at
\* most 4 when they replace an empty external set, and no list holds the same
\* string twice, the curated top-up included.
C9_CapsAndNoDuplicates ==
  Analysed =>
    /\ Len(response.body.synonyms) <= 8
    /\ Len(response.body.antonyms) <= 8
    /\ (variant = "lambda" /\ response.body.antonyms_from = "external") =>
         Len(response.body.antonyms) <= 6
    /\ response.body.antonyms_from = "replaced" => Len(response.body.antonyms) <= 4
    /\ NoDuplicates(response.body.synonyms)
    /\ NoDuplicates(response.body.antonyms)

\* the quality gate replaced the antonyms by four curated ones and topped the
\* synonyms up
C9_Witness ==
  /\ variant = "lambda" /\ Analysed /\ response.body.path = "gate"
  /\ response.body.antonyms_from = "replaced"
  /\ Len(response.body.antonyms) = 4
  /\ Len(response.body.synonyms) > FewSynonyms

\* C10: an analysis request is answered 200 with success when the word is
\* valid, 400 with an error message whenever the request carries no usable
\* word (no body, a body that is no JSON object, a word that is absent, not a
\* string, blank, of several tokens or without letters), and 500 with
\* success=false only on an unexpected internal fault.
C10_StatusContract ==
  AnalyzeRequested =>
    /\ response.status \in {200, 400, 500}
    /\ ~UsableWord => (response.status = 400 /\ response.error # "")
    /\ response.status = 200 => (UsableWord /\ Analysed /\ response.success = "true")
    /\ response.status = 500 => response.success = "false"

\* the request on record asks for the health of the service
HealthRequested ==
  request # NoRequest /\ request.method = "GET" /\ request.path = "/api/health"

\* C11: a GET health request is always answered 200 with status "healthy"
\* and a boolean readiness field equal to the processor's readiness flag,
\* whatever was requested before.
C11_HealthReportsReadiness ==
  HealthRequested =>
    /\ response.status = 200
    /\ response.kind = "health"
    /\ response.health.status = "healthy"
    /\ response.health.has_nltk_ready
    /\ response.health.nltk_ready = nltk_ready

\* C12: when the processor is ready and the tokenizer, the tagger or the
\* synset lookup raises inside a resolver, the resolver returns what its
\* fallback returns for the word, and the request is still answered 200 with
\* success.
C12_ExternalFaultRecovered ==
  LET w == lower(re_sub_non_letters(request.word))
  IN  (variant = "lambda" /\ nltk_ready /\ UsableWord) =>
        /\ response.status = 200
        /\ response.success = "true"
        /\ response.body.success
        /\ (tagger.tokenize = "raise" \/ tagger.tag_raises) =>
             response.body.partOfSpeech = _get_fallback_pos(w)
        /\ synsets(w).raises =>
             /\ response.body.synonyms = _get_fallback_synonyms_antonyms(w).synonyms
             /\ response.body.antonyms = _get_fallback_synonyms_antonyms(w).antonyms
             /\ response.body.definition = _get_fallback_definition(w)
             /\ response.body.exampleSentence = _get_fallback_example(w)

\* a ready processor has analysed a word while the tagger raises
C12_Witness ==
  /\ variant = "lambda" /\ nltk_ready /\ UsableWord /\ Analysed
  /\ tagger.tokenize = "ok" /\ tagger.tag_raises
  /\ response.body.partOfSpeech = <<"A","d","j","e","c","t","i","v","e">>

\* C13: the readiness flag is set during construction and no request changes
\* it: every step of the process, whether an analysis, a health request, a
\* rejected request or an analysis in which an external call raised, leaves
\* nltk_ready as it was.
C13_ReadinessNeverChanges == [][nltk_ready' = nltk_ready]_vars

\* a ready processor has answered a request in which wordnet.synsets raised,
\* and is still ready
C13_Witness ==
  /\ variant = "lambda" /\ nltk_ready /\ Analysed
  /\ response.body.path = "raised"
  /\ wordnet.head.raises

\* C14: on every tier (external example, curated example table, heuristic
\* template) the example sentence returned ends with '.', '!' or '?'.
C14_ExampleEndsWithPunctuation ==
  Analysed =>
    /\ Len(response.body.exampleSentence) > 0
    /\ response.body.exampleSentence[Len(response.body.exampleSentence)] \in TerminalPunctuation

\* the external source has answered the word with at least one synset
SensesFound(word) == ~synsets(word).raises /\ Len(synsets(word).synsets) > 0

\* the synonyms and the antonyms collected from the external source, as lists
CollectedSynonyms(word) ==
  LET used == take(synsets(word).synsets, 5)
  IN  take(list_of_set(UNION {synset_synonyms(used[i], word) : i \in DOMAIN used}), 8)

CollectedAntonyms(word) ==
  LET used == take(synsets(word).synsets, 5)
  IN  take(list_of_set(UNION {synset_antonyms(used[i]) : i \in DOMAIN used}), 6)

\* list, with the curated entries appended in their order, skipping those that
\* equal an entry of the list whatever the case, up to 8 entries
RECURSIVE ToppedUp(_, _)
ToppedUp(list, curated) ==
  IF Len(curated) = 0 THEN list
  ELSE ToppedUp(IF Len(list) < 8 /\ \A i \in DOMAIN list : lower(list[i]) # lower(Head(curated))
                  THEN Append(list, Head(curated))
                  ELSE list,
                Tail(curated))

\* C15 as stated: when the external source returned a synset, the curated
\* tier is consulted if and only if fewer than 3 synonyms or no antonym were
\* collected; when consulted, missing antonyms become the first 4 curated
\* ones and the synonyms are topped up to at most 8; when not consulted the
\* collected lists are returned.
C15_GateAsStated ==
  (variant = "lambda" /\ nltk_ready /\ Analysed /\ SensesFound(response.body.word)) =>
    LET w == response.body.word
        syns == CollectedSynonyms(w)
        ants == CollectedAntonyms(w)
        curated == _get_fallback_synonyms_antonyms(w)
        consulted == Len(syns) < 3 \/ Len(ants) = 0
    IN  /\ (response.body.path = "gate") = consulted
        /\ response.body.antonyms =
             IF consulted /\ Len(ants) = 0 THEN take(curated.antonyms, 4) ELSE ants
        /\ response.body.synonyms =
             IF consulted THEN ToppedUp(syns, curated.synonyms) ELSE syns

\* C15, amended: as stated, except that the synonyms are topped up only when
\* fewer than 3 were collected; 3 or more collected synonyms are returned
\* unchanged even when the curated tier is consulted for the antonyms.
C15_GateTopsUpFewSynonyms ==
  (variant = "lambda" /\ nltk_ready /\ Analysed /\ SensesFound(response.body.word)) =>
    LET w == response.body.word
        syns == CollectedSynonyms(w)
        ants == CollectedAntonyms(w)
        curated == _get_fallback_synonyms_antonyms(w)
        consulted == Len(syns) < 3 \/ Len(ants) = 0
    IN  /\ (response.body.path = "gate") = consulted
        /\ response.body.antonyms =
             IF consulted /\ Len(ants) = 0 THEN take(curated.antonyms, 4) ELSE ants
        /\ response.body.synonyms =
             IF Len(syns) < 3 THEN ToppedUp(syns, curated.synonyms) ELSE syns

\* three synonyms and no antonym were collected: the antonyms were replaced
\* and the synonyms returned as collected, although the curated tier had more
C15_Witness ==
  /\ variant = "lambda" /\ nltk_ready /\ Analysed /\ SensesFound(response.body.word)
  /\ response.body.path = "gate"
  /\ Len(CollectedSynonyms(response.body.word)) = 3
  /\ Len(CollectedAntonyms(response.body.word)) = 0
  /\ response.body.synonyms = CollectedSynonyms(response.body.word)
  /\ response.body.antonyms =
       take(_get_fallback_synonyms_antonyms(response.body.word).antonyms, 4)
  /\ ToppedUp(response.body.synonyms,
              _get_fallback_synonyms_antonyms(response.body.word).synonyms)
       # response.body.synonyms

\* get_part_of_speech answers the request on record with the heuristic
PosFromHeuristic ==
  /\ variant = "lambda" /\ Analysed
  /\ \/ ~nltk_ready
     \/ tagger.tokenize \in {"raise", "empty"}
     \/ tagger.tag_raises

EndsAsVerb(w) ==
  \E suf \in {<<"i","n","g">>, <<"e","d">>, <<"a","t","e">>, <<"i","z","e">>, <<"i","f","y">>} : endswith(w, suf)

EndsAsAdjective(w) ==
  \E suf \in {<<"f","u","l">>, <<"l","e","s","s">>, <<"o","u","s">>, <<"i","v","e">>, <<"a","b","l","e">>, <<"i","b","l","e">>, <<"a","l">>, <<"i","c">>} : endswith(w, suf)

EndsAsAdverb(w) == endswith(w, <<"l","y">>) /\ Len(w) > 3

\* C16: the heuristic part of speech is total and applies its rules in this
\* priority: verb suffix, adjective suffix, "ly" with length above 3, common
\* verb, common adjective, Noun; a suffix rule wins over list membership and
\* a word of at most 3 letters ending in "ly" is never an Adverb.
C16_FallbackPosPriority ==
  PosFromHeuristic =>
    LET w == response.body.word
        pos == response.body.partOfSpeech
        suffixed == EndsAsVerb(w) \/ EndsAsAdjective(w) \/ EndsAsAdverb(w)
    IN  /\ pos \in {<<"V","e","r","b">>, <<"A","d","j","e","c","t","i","v","e">>, <<"A","d","v","e","r","b">>, <<"N","o","u","n">>}
        /\ EndsAsVerb(w) => pos = <<"V","e","r","b">>
        /\ (~EndsAsVerb(w) /\ EndsAsAdjective(w)) => pos = <<"A","d","j","e","c","t","i","v","e">>
        /\ (~EndsAsVerb(w) /\ ~EndsAsAdjective(w) /\ EndsAsAdverb(w)) => pos = <<"A","d","v","e","r","b">>
        /\ (~suffixed /\ w \in common_verbs) => pos = <<"V","e","r","b">>
        /\ (~suffixed /\ w \notin common_verbs /\ w \in common_adjectives) => pos = <<"A","d","j","e","c","t","i","v","e">>
        /\ (~suffixed /\ w \notin common_verbs /\ w \notin common_adjectives) => pos = <<"N","o","u","n">>
        /\ (Len(w) <= 3 /\ endswith(w, <<"l","y">>)) => pos # <<"A","d","v","e","r","b">>

\* "ugly", a common adjective ending in "ly", was labelled Adverb
C16_Witness ==
  /\ PosFromHeuristic
  /\ response.body.word = <<"u","g","l","y">>
  /\ response.body.partOfSpeech = <<"A","d","v","e","r","b">>

\* the text with only its first letter changed to upper case
FirstUpper(s) == IF Len(s) = 0 THEN s ELSE <<upper_char(s[1])>> \o Tail(s)

\* the definition of the static table, or the synthesized one
StaticDefinition(word) ==
  IF has_key(definitions, word) THEN row_of(definitions, word)[2]
  ELSE <<"A"," ","c","o","m","m","o","n"," ","E","n","g","l","i","s","h"," ","w","o","r","d"," ","m","e","a","n","i","n","g"," ","\"">> \o word \o <<"\"">>

\* the glosses of the second and third senses of the word
LaterGlosses(word) ==
  {synsets(word).synsets[i].definition : i \in DOMAIN synsets(word).synsets \cap {2, 3}}

\* the glosses the statement lets get_definition choose for the word
ChosenGlosses(word) ==
  LET first == synsets(word).synsets[1].definition
      longer == {g \in LaterGlosses(word) : Len(g) > Len(first)}
  IN  IF Len(first) < 20 /\ longer # {}
        THEN {g \in longer : \A h \in longer : Len(h) <= Len(g)}
        ELSE {first}

\* C17: with the source ready and at least one sense, get_definition returns
\* the first gloss, unless it is shorter than 20 characters and the second or
\* third gloss is longer, in which case it returns the longest of those; the
\* text returned is the chosen gloss with only its first letter changed to
\* upper case.  With the source not ready, no sense, or an empty chosen gloss,
\* it returns the static table's definition or the synthesized one.
C17_DefinitionAsStated ==
  (variant = "lambda" /\ Analysed) =>
    LET w == response.body.word
    IN  IF nltk_ready /\ SensesFound(w) /\ ChosenGlosses(w) # {<< >>}
          THEN response.body.definition \in {FirstUpper(g) : g \in ChosenGlosses(w)}
          ELSE response.body.definition = StaticDefinition(w)

\* the example usages of the first 3 senses of the word, in sense order and
\* then in usage order, surrounding blanks removed
RECURSIVE UsagesOf(_)
UsagesOf(senses) ==
  IF Len(senses) = 0 THEN << >>
  ELSE [i \in DOMAIN Head(senses).examples |-> strip(Head(senses).examples[i])]
       \o UsagesOf(Tail(senses))

FirstUsages(word) == UsagesOf(take(synsets(word).synsets, 3))

\* first letter upper-cased, and a period appended unless the text ends in
\* '.', '!' or '?'
AsSentence(s) ==
  IF s[Len(s)] \in {".", "!", "?"} THEN FirstUpper(s) ELSE FirstUpper(s) \o <<".">>

\* C18: with the source ready, generate_example_sentence returns the first
\* non-empty usage among all the usages of the first 3 senses, in sense order
\* then usage order, first letter upper-cased and a period appended if it
\* lacks terminal punctuation; the fallback is used only when none of the
\* first 3 senses holds a non-empty usage; later senses are never consulted.
C18_ExampleAsStated ==
  (variant = "lambda" /\ nltk_ready /\ Analysed /\ ~synsets(response.body.word).raises) =>
    LET w == response.body.word
        stored == SelectSeq(FirstUsages(w), LAMBDA u : Len(u) > 0)
    IN  IF Len(stored) > 0
          THEN response.body.exampleSentence = AsSentence(stored[1])
          ELSE response.body.exampleSentence = _get_fallback_example(w)

\* the word the handler passes to the resolvers: the Flask view passes the
\* cleaned word as typed, analyze_word of the Lambda variant lower-cases it
ResolvedWord ==
  IF variant = "flask" THEN re_sub_non_letters(strip(request.word)) ELSE response.body.word

\* C19: when neither the external source nor the static example table holds
\* an example for the word, the example is built from the part of speech
\* returned for the same request: one of the three templates of Noun, Verb,
\* Adjective or Adverb with the word interpolated, and for any other category
\* exactly "The word '<word>' is used in many contexts."
C19_TemplateFromResolvedPos ==
  (Analysed /\ NoStoredExample(response.body.word) /\ ~CuratedExample(response.body.word)) =>
    LET w == ResolvedWord
        category == strip(before_paren(response.body.partOfSpeech))
    IN  IF category \in {<<"N","o","u","n">>, <<"V","e","r","b">>, <<"A","d","j","e","c","t","i","v","e">>, <<"A","d","v","e","r","b">>}
          THEN response.body.exampleSentence \in Range(templates(category, w))
          ELSE response.body.exampleSentence = <<"T","h","e"," ","w","o","r","d"," ","'">> \o w \o <<"'"," ","i","s"," ","u","s","e","d"," ","i","n"," ","m","a","n","y"," ","c","o","n","t","e","x","t","s",".">>

\* C20: requests served at once by the one processor do not interfere: in
\* every interleaving of their steps each request gets the response it gets
\* when handled alone, and no step changes the readiness flag or a response
\* already returned.
C20_NoInterference ==
  /\ [](\A t \in Threads :
          threads[t].pc = "done" => threads[t].reply = lambda_handler(threads[t].event).response)
  /\ [][/\ nltk_ready' = nltk_ready
        /\ \A t \in Threads :
             threads[t].pc = "done" =>
               (threads'[t].pc = "done" /\ threads'[t].reply = threads[t].reply)]_vars

\* two analyses of different words, both topped up, have been answered after
\* steps of each were taken while the other was in progress
C20_Witness ==
  /\ \A t \in Threads : threads[t].pc = "done" /\ threads[t].reply.kind = "analysis"
  /\ threads[1].overlapped /\ threads[2].overlapped
  /\ threads[1].event # threads[2].event
  /\ threads[1].reply.body.path = "gate" /\ threads[2].reply.body.path = "gate"
  /\ Len(threads[1].pending) = 0 /\ Len(threads[1].reply.body.synonyms) > 1
  /\ Len(threads[2].reply.body.synonyms) > 1

====
